---- MODULE Spec2Model ----
(***************************************************************************)
(* Staleness detection and transfer orchestration of transfercoder:        *)
(* Transfercode (needs_update, transcode, copy, transfer,                  *)
(* transcode_to_tempdir), TransfercodeTemp, ParallelMethodCaller and main. *)
(* Two implementations of Transfercode exist: the script                   *)
(* src/transfercoder.py and the package src/transfercoder/__init__.py.     *)
(***************************************************************************)
EXTENDS Integers, Sequences, FiniteSets, TLC

\* ---------------------------------------------------------------- bounds
\* number of source files enumerated by DestinationFinder.transfercodes
NumUnits == 2
\* modification times are drawn from 0..MaxMtime
MaxMtime == 2
\* the largest worker pool size (option --jobs)
MaxJobs == 2
\* a file name given to find_dest is made of at most MaxNameLen pieces
MaxNameLen == 3
\* a path given to find_dest has at most MaxDirs directories above the file
MaxDirs == 3
\* walk_extra_dest_files is called at most MaxCalls times on a pair of trees
MaxCalls == 2
\* a Transfercode used on its own receives at most MaxUnitCalls method calls
MaxUnitCalls == 3

Units == 1..NumUnits
Mtimes == 0..MaxMtime
Contents == {"a", "b"}
EoptsChoices == {"q2", "q5"}

\* ------------------------------------------------------------ file system
\* Python's None, and the empty string saved_checksum uses for "tried and failed"
PyNone == <<>>
EmptyStr == <<"">>

SrcPath(u) == <<"src", u>>
DestPath(u) == <<"dest", u>>
TempPath(u) == <<"temp", u>>
Paths == {"src", "dest", "temp"} \X Units

NoFile == [exists |-> FALSE, data |-> <<>>, tag |-> PyNone, mtime |-> 0, readable |-> FALSE]
MkFile(d, t, m) == [exists |-> TRUE, data |-> d, tag |-> t, mtime |-> m, readable |-> TRUE]

\* Python's None given as encoder_options
NoEopts == "None"

\* (self.eopts or "").encode("utf-8"): None and the empty string add no bytes
eopts_bytes(eo) == IF eo \in {NoEopts, ""} THEN <<>> ELSE <<eo>>

Hash_of_bytes_alone(data, eo) == <<"sha", data>>

\* hashlib.sha256 fed the source bytes and then the encoder options: a digest of
\* their concatenation, taken as injective
Hash(data, eo) == <<"sha", data \o eopts_bytes(eo)>>

\* the one element of a singleton set: The({e(x) : x \in {v}}) is e(v), with v
\* evaluated once
The(S) == CHOOSE x \in S : TRUE

VARIABLES
    fs,             \* path -> file
    srcExt,         \* unit -> extension of the source file
    workdir,        \* whether work_dir exists
    clock,          \* the time a write stamps on the file it writes
    impl,           \* "script" or "package": which Transfercode is in use
    tagCapable,     \* whether files of the target format can store the checksum tag
    eopts,          \* encoder_options given to every Transfercode
    use_checksum,   \* not no_checksum_tags
    memo,           \* unit -> [src, saved]: _src_checksum and _saved_checksum
    nuResult,       \* unit -> outcome of the last needs_update() made on the unit
    extraDest,      \* whether the destination tree holds a file no source maps to
    main,           \* the local variables of main and its position
    pool,           \* transcode_pool: its state, task queue, results and workers
    hist,           \* history of the run, read by the properties only
    finder          \* a DestinationFinder, the calls made on it and what they gave

vars == <<fs, srcExt, workdir, clock, impl, tagCapable, eopts, use_checksum, memo,
          nuResult, extraDest, main, pool, hist, finder>>

\* ------------------------------------------------------------ path mapping
transcode_formats == {"flac"}
target_format == "ogg"

\* DestinationFinder.find_dest: the extension of the destination of unit u
DestExt(u) == IF srcExt[u] \in transcode_formats THEN target_format ELSE srcExt[u]

\* splitext_afterdot(path)[1]; a temp file carries the destination's extension
Ext(p) == IF p[1] = "src" THEN srcExt[p[2]] ELSE DestExt(p[2])

\* Transfercode.__init__
Transfercode(s, d, eo, uc) ==
    [src |-> s, dest |-> d, eopts |-> eo, use_checksum |-> uc,
     needs_transcode |-> Ext(s) # Ext(d), cls |-> "Transfercode"]

\* TransfercodeTemp shares Transfercode.__init__
TransfercodeTemp(s, d, eo, uc) ==
    [Transfercode(s, d, eo, uc) EXCEPT !.cls = "TransfercodeTemp"]

FreshMemo == [src |-> PyNone, saved |-> PyNone]

\* ----------------------------------------------------------- tag library
\* read_checksum_tag: every failure reads as None
read_checksum_tag(F, p) == IF F[p].exists THEN F[p].tag ELSE PyNone

\* write_checksum_tag: every failure is swallowed
write_checksum_tag(F, p, ck) ==
    IF F[p].exists /\ tagCapable /\ F[p].data # <<>> /\ F[p].data # <<"partial">>
    THEN [F EXCEPT ![p].tag = ck, ![p].mtime = clock]
    ELSE F

\* ------------------------------------------------------ StalenessOracle
\* Transfercode.source_checksum
source_checksum(t, m, F) ==
    IF m.src # PyNone THEN [val |-> m.src, memo |-> m, raised |-> FALSE]
    ELSE IF ~(F[t.src].exists /\ F[t.src].readable)
         THEN [val |-> PyNone, memo |-> m, raised |-> TRUE]
         ELSE LET h == Hash(F[t.src].data, t.eopts)
              IN [val |-> h, memo |-> [m EXCEPT !.src = h], raised |-> FALSE]

\* Transfercode.saved_checksum
saved_checksum(t, m, F) ==
    LET read == read_checksum_tag(F, t.dest)
        m2 == IF m.saved = PyNone
              THEN [m EXCEPT !.saved = IF read = PyNone THEN EmptyStr ELSE read]
              ELSE m
    IN [val |-> IF m2.saved = EmptyStr THEN PyNone ELSE m2.saved,
        memo |-> m2, raised |-> FALSE]

\* Transfercode.checksum_current of the script: "True", "False" or "None"
checksum_current_script(t, m, F) ==
    The({ IF s.val = PyNone
          THEN [val |-> "None", memo |-> s.memo, raised |-> FALSE]
          ELSE The({ IF c.raised
                     THEN [val |-> "None", memo |-> c.memo, raised |-> TRUE]
                     ELSE [val |-> IF s.val = c.val THEN "True" ELSE "False",
                           memo |-> c.memo, raised |-> FALSE]
                     : c \in {source_checksum(t, s.memo, F)} })
          : s \in {saved_checksum(t, m, F)} })

\* Transfercode.checksum_current of the package: "saved is not None and ..."
checksum_current_package(t, m, F) ==
    The({ IF s.val = PyNone
          THEN [val |-> "False", memo |-> s.memo, raised |-> FALSE]
          ELSE The({ IF c.raised
                     THEN [val |-> "False", memo |-> c.memo, raised |-> TRUE]
                     ELSE [val |-> IF s.val = c.val THEN "True" ELSE "False",
                           memo |-> c.memo, raised |-> FALSE]
                     : c \in {source_checksum(t, s.memo, F)} })
          : s \in {saved_checksum(t, m, F)} })

checksum_current(t, m, F) ==
    IF impl = "script" THEN checksum_current_script(t, m, F)
    ELSE checksum_current_package(t, m, F)

\* a comparison that also calls equal modification times stale
src_newer_or_equal(t, F) == F[t.src].mtime >= F[t.dest].mtime

\* the modification-time comparison that ends needs_update
src_newer(t, F) == F[t.src].mtime > F[t.dest].mtime

\* os.path.getmtime(self.src) raises OSError when the source is not there
mtime_compare(t, m, F) ==
    IF ~F[t.src].exists THEN [val |-> FALSE, memo |-> m, raised |-> TRUE]
    ELSE [val |-> src_newer(t, F), memo |-> m, raised |-> FALSE]

\* Transfercode.needs_update (TransfercodeTemp.needs_update returns True)
needs_update(t, m, F) ==
    IF t.cls = "TransfercodeTemp" THEN [val |-> TRUE, memo |-> m, raised |-> FALSE]
    ELSE IF ~F[t.dest].exists THEN [val |-> TRUE, memo |-> m, raised |-> FALSE]
    ELSE IF t.needs_transcode /\ t.use_checksum
         THEN The({ IF c.raised THEN [val |-> FALSE, memo |-> c.memo, raised |-> TRUE]
                    ELSE IF c.val = "None"
                         THEN mtime_compare(t, c.memo, F)
                         ELSE [val |-> c.val # "True", memo |-> c.memo, raised |-> FALSE]
                    : c \in {checksum_current(t, m, F)} })
         ELSE mtime_compare(t, m, F)

\* ------------------------------------------------- Transfercode operations
UnitOf(u) == Transfercode(SrcPath(u), DestPath(u), eopts, use_checksum)
UnitId(t) == t.dest[2]
MemoOf(t) == IF t.cls = "Transfercode" /\ t.dest[1] = "dest" THEN memo[UnitId(t)] ELSE FreshMemo
PutMemo(t, m) ==
    IF t.cls = "Transfercode" /\ t.dest[1] = "dest" THEN [memo EXCEPT ![UnitId(t)] = m] ELSE memo

Ok(v, m) == [val |-> v, memo |-> m, raised |-> FALSE]
Raise(m) == [val |-> "raise", memo |-> m, raised |-> TRUE]

\* Transfercode.check: the source is a file and the destination's directory exists
\* (create_dirs made the destination directories; a temp file lives in work_dir)
check_fails(t, F, wd) == ~F[t.src].exists \/ (t.dest[1] = "temp" /\ ~wd)

\* Transfercode.transfer up to the action it chooses:
\* "transcode", "copy", "save_checksum", "skip", or it raises
transfer_plan(t, m, F, wd, frc, dry) ==
    The({ IF nu.raised THEN Raise(nu.memo)
          ELSE IF nu.val
               THEN IF ~dry /\ check_fails(t, F, wd) THEN Raise(nu.memo)
                    ELSE Ok(IF t.needs_transcode THEN "transcode" ELSE "copy", nu.memo)
               ELSE IF ~dry /\ t.use_checksum /\ t.needs_transcode
                    THEN The({ IF c.raised THEN Raise(c.memo)
                               ELSE Ok(IF c.val # "True" THEN "save_checksum" ELSE "skip",
                                       c.memo)
                               : c \in {checksum_current(t, nu.memo, F)} })
                    ELSE Ok("skip", nu.memo)
          : nu \in {IF frc THEN Ok(TRUE, m) ELSE needs_update(t, m, F)} })

\* transcode_to_tempdir that never stages: every unit is returned unmodified
stage_plan_direct(t, m, F, frc, dry) == Ok("self", m)

\* a transcode_to_tempdir that stages every unit that needs transcoding, up to date
\* or not
stage_plan_eager(t, m, F, frc, dry) ==
    IF t.cls = "TransfercodeTemp" \/ dry \/ ~t.needs_transcode THEN Ok("self", m)
    ELSE Ok("stage", m)

\* Transfercode.transcode_to_tempdir up to its decision: "self" or "stage", or it raises
stage_plan(t, m, F, frc, dry) ==
    IF t.cls = "TransfercodeTemp" THEN Ok("self", m)
    ELSE IF dry THEN Ok("self", m)
    ELSE IF ~t.needs_transcode THEN Ok("self", m)
    ELSE The({ IF nu.raised THEN Raise(nu.memo)
               ELSE Ok(IF nu.val THEN "stage" ELSE "self", nu.memo)
               : nu \in {IF frc THEN Ok(TRUE, m) ELSE needs_update(t, m, F)} })

\* a staging whose engine writes to the unit's destination instead of temp_filename
stage_inner_direct(t) == Transfercode(t.src, t.dest, t.eopts, t.use_checksum)

\* the unit transcode_to_tempdir transcodes: source -> temp_filename
stage_inner(t) == Transfercode(t.src, TempPath(UnitId(t)), t.eopts, t.use_checksum)

\* a staging that returns a unit whose source is still the original source
stage_result_from_source(t) == TransfercodeTemp(t.src, t.dest, NoEopts, FALSE)

\* the unit transcode_to_tempdir returns after transcoding
stage_result(t) == TransfercodeTemp(TempPath(UnitId(t)), t.dest, NoEopts, FALSE)

PartialFile == MkFile(<<"partial">>, PyNone, clock)
EmptyFile == MkFile(<<>>, PyNone, clock)

\* AudioFile(self.src) in transcode: the source must be identified as a music file
audiofile_fails(t, F) == ~(F[t.src].exists /\ F[t.src].readable)

\* Transfercode.transcode after a successful engine run: copy_tags, checksum tag
transcode_done(t, F) ==
    LET out == MkFile(<<"enc", F[t.src].data, t.eopts>>, PyNone, clock)
        F1 == [F EXCEPT ![t.dest] = out]
    IN IF t.use_checksum
       THEN write_checksum_tag(F1, t.dest, Hash(F[t.src].data, t.eopts))
       ELSE F1

\* Transfercode.copy: the destination receives the source's bytes, tags included
copy_done(t, F) == [F EXCEPT ![t.dest] = MkFile(F[t.src].data, F[t.src].tag, clock)]

\* Transfercode.save_checksum
save_checksum(t, m, F) ==
    The({ IF c.raised THEN [fs |-> F, memo |-> c.memo, raised |-> TRUE]
          ELSE [fs |-> write_checksum_tag(F, t.dest, c.val), memo |-> c.memo,
                raised |-> FALSE]
          : c \in {source_checksum(t, [m EXCEPT !.saved = PyNone], F)} })

\* mkstemp, then Transfercode(src, temp).transfer(force=True) up to the start of
\* the engine run: [fs, raised]
stage_begin(t, F, wd) ==
    IF ~wd THEN [fs |-> F, raised |-> TRUE]
    ELSE The({ IF transfer_plan(stage_inner(t), FreshMemo, F1, wd, TRUE, FALSE).raised
                  \/ audiofile_fails(stage_inner(t), F1)
               THEN [fs |-> F1, raised |-> TRUE]
               ELSE [fs |-> [F1 EXCEPT ![stage_inner(t).dest] = PartialFile],
                     raised |-> FALSE]
               : F1 \in {[F EXCEPT ![TempPath(UnitId(t))] = EmptyFile]} })

\* the engine run: it writes its output and exits with 0 ("written"), it fails
\* ("fails"), or it exits with 0 and has written nothing ("no_output")
EngineOutcomes == {"written", "fails", "no_output"}

\* copy_tags builds AudioFile(dest), which raises unless the file is identified
\* as a music file: an empty or truncated file is not
copy_tags_fails(f) == ~f.exists \/ f.data = <<>> \/ f.data = <<"partial">>

\* copy_tags and the checksum tag on a destination the engine has not written:
\* the tags are replaced, the bytes stay
retag(t, F) ==
    IF t.use_checksum
    THEN write_checksum_tag([F EXCEPT ![t.dest].tag = PyNone], t.dest,
                            Hash(F[t.src].data, t.eopts))
    ELSE [F EXCEPT ![t.dest].tag = PyNone]

\* "if not os.path.isfile(self.dest): raise Exception(...)", negated
produced(t, F) == F[t.dest].exists

\* the end of the engine run of unit t and the rest of transcode: [fs, raised];
\* prior is what the path of the output held before the run
engine_end(t, F, prior, out) ==
    IF out = "fails" THEN [fs |-> F, raised |-> TRUE]
    ELSE IF out = "written"
         THEN IF produced(t, F) THEN [fs |-> transcode_done(t, F), raised |-> FALSE]
              ELSE [fs |-> F, raised |-> TRUE]
         ELSE The({ IF ~produced(t, F1) \/ copy_tags_fails(F1[t.dest])
                    THEN [fs |-> F1, raised |-> TRUE]
                    ELSE [fs |-> retag(t, F1), raised |-> FALSE]
                    : F1 \in {IF F[t.dest].exists THEN [F EXCEPT ![t.dest] = prior]
                              ELSE F} })

\* Transfercode.transcode, not a dry run, as one step: [fs, memo, raised]
transcode(t, m, F, out) ==
    IF audiofile_fails(t, F) THEN [fs |-> F, memo |-> m, raised |-> TRUE]
    ELSE The({ [fs |-> ee.fs,
                memo |-> IF ~ee.raised /\ t.use_checksum
                         THEN source_checksum(t, m, F).memo ELSE m,
                raised |-> ee.raised]
               : ee \in {engine_end(t, [F EXCEPT ![t.dest] = PartialFile],
                                    F[t.dest], out)} })

\* os.remove
remove(F, p) == [F EXCEPT ![p] = NoFile]

\* ------------------------------------------------------------------ main
NoUnit == [src |-> <<"none", 0>>, dest |-> <<"none", 0>>, eopts |-> NoEopts,
           use_checksum |-> FALSE, needs_transcode |-> FALSE, cls |-> "none"]

Workers == 1..MaxJobs
IdleWorker == [st |-> "idle", u |-> 0]
NoPool == [state |-> "none", tasks |-> <<>>, results |-> <<>>,
           workers |-> [w \in Workers |-> IdleWorker], nread |-> 0]

InitMain(frc, dry, del, j) ==
    [pc |-> "plan", force |-> frc, dry_run |-> dry, delete |-> del, jobs |-> j,
     jobs_opt |-> j, target_in_formats |-> FALSE, encoder_options |-> eopts,
     need |-> FALSE, idx |-> 1, tfc |-> NoUnit, job |-> NoUnit, op |-> "none",
     fname |-> 0, failed_files |-> <<>>, failed_bound |-> FALSE,
     finished |-> FALSE, canceled |-> FALSE, last_file |-> PyNone, exc |-> "none",
     interrupted |-> FALSE]

\* what is recorded of a call of transcode_to_tempdir: whether one of its
\* three no-op conditions held ("yes", "no", or needs_update "raised"), whether
\* tempdir existed, the temp files it created, the engine runs it started and
\* how it ended ("self", "temp", "raised", or still "running")
NoStage == [called |-> FALSE, noop |-> "no", dir |-> FALSE, temps |-> 0, engines |-> 0,
            ret |-> "none"]

StageNoop(t, m, F, frc, dry) ==
    IF dry \/ ~t.needs_transcode THEN "yes"
    ELSE IF frc THEN "no"
    ELSE IF needs_update(t, m, F).raised THEN "raised"
    ELSE IF needs_update(t, m, F).val THEN "no" ELSE "yes"

StageCalled(H, t, m, dry, nt, ne, r) ==
    [H EXCEPT !.stage[UnitId(t)] =
        [called |-> TRUE, noop |-> StageNoop(t, m, fs, main.force, dry), dir |-> workdir,
         temps |-> nt, engines |-> ne, ret |-> r],
              !.stageCount[UnitId(t)] = @ + 1]

StageEnded(H, u, r) == [H EXCEPT !.stage[u].ret = r]

\* the last method called on a Transfercode used on its own, its engine
\* outcome, whether it raised, and the number of calls made so far
NoCall == [op |-> "none", out |-> "none", raised |-> FALSE, n |-> 0]

\* what is kept of a first run for the comparison with a second one: the
\* destination tree it left and the paths in failed_files
NoFirst == [dest |-> <<>>, extra |-> FALSE, failed |-> {}]

InitHist(F) ==
    [fs0 |-> F, run |-> 1, workCreated |-> FALSE, writes |-> {},
     intr |-> [at |-> "none", xfer |-> 0, engines |-> {}],
     tempXfer |-> [u \in Units |-> "none"], removed |-> [u \in Units |-> 0],
     failLog |-> <<>>, escaped |-> FALSE,
     nu0 |-> [u \in Units |-> "none"], changed |-> [u \in Units |-> "none"],
     eopts0 |-> NoEopts,
     xfers |-> {}, stageExc |-> {}, planSeen |-> {},
     copyRet |-> [u \in Units |-> "none"],
     stage |-> [u \in Units |-> NoStage], last |-> NoCall, summary |-> "none",
     xferCount |-> [u \in Units |-> 0], first |-> NoFirst,
     stageCount |-> [u \in Units |-> 0], orphans |-> FALSE]

Wrote(who, p, what) == hist.writes \cup {<<who, p[1], what>>}

\* the units in the order transfercodes lists them, from unit i on
RECURSIVE UnitsFrom(_)
UnitsFrom(i) == IF i > NumUnits THEN <<>> ELSE <<i>> \o UnitsFrom(i + 1)

\* sorted(transfercodes, key = lambda x: x.needs_transcode): a stable sort
SortedUnits ==
    SelectSeq(UnitsFrom(1), LAMBDA u : ~UnitOf(u).needs_transcode)
    \o SelectSeq(UnitsFrom(1), LAMBDA u : UnitOf(u).needs_transcode)

\* default_eopts, and the local encoder_options of main after
\* "if need_at_least_one_transcode: if encoder_options is None: ..."
default_eopts ==
    [mp3 |-> "-codec:a libmp3lame -q:a 2", ogg |-> "-codec:a libvorbis -q:a 5",
     aac |-> "-codec:a libfdk_aac -vbr 5", m4a |-> "-codec:a libfdk_aac -vbr 5",
     mp4 |-> "-codec:a libfdk_aac -vbr 5", opus |-> "-codec:a libopus -b:a 160k"]

plan_eopts(given, need) ==
    IF need /\ given = NoEopts /\ target_format \in DOMAIN default_eopts
    THEN default_eopts[target_format] ELSE given

\* any(map(lambda x: (force or x.needs_update()) and x.needs_transcode, it)),
\* evaluated from unit i on: [need, memo, raised, seen]; seen are the units
\* whose needs_update was called, S those called before unit i
RECURSIVE plan_from(_, _, _, _)
plan_from(i, M, frc, S) ==
    IF i > NumUnits THEN [need |-> FALSE, memo |-> M, raised |-> FALSE, seen |-> S]
    ELSE IF frc
         THEN IF UnitOf(i).needs_transcode
              THEN [need |-> TRUE, memo |-> M, raised |-> FALSE, seen |-> S]
              ELSE plan_from(i + 1, M, frc, S)
         ELSE The({ IF nu.raised
                    THEN [need |-> FALSE, memo |-> [M EXCEPT ![i] = nu.memo],
                          raised |-> TRUE, seen |-> S \cup {i}]
                    ELSE IF nu.val /\ UnitOf(i).needs_transcode
                         THEN [need |-> TRUE, memo |-> [M EXCEPT ![i] = nu.memo],
                               raised |-> FALSE, seen |-> S \cup {i}]
                         ELSE plan_from(i + 1, [M EXCEPT ![i] = nu.memo], frc,
                                        S \cup {i})
                    : nu \in {needs_update(UnitOf(i), M[i], fs)} })

\* a main that keeps the number of jobs it was given
plan_jobs_as_given(m, need) == m.jobs

\* "if dry_run: jobs = 0" and, when no unit needs transcoding, "jobs = 0"
plan_jobs(m, need) == IF m.dry_run \/ ~need THEN 0 ELSE m.jobs

\* an argument_error that reports the error and returns
argument_error_returns(m) == m

\* "argument_error('The target format must not be ...')": no argument_error is
\* defined or imported, so the call raises NameError, which leaves main
argument_error(m) == [m EXCEPT !.pc = "raised", !.exc = "exception"]

\* main from its first statement to "finished = False": the check of the target
\* format, the dry_run switch to sequential mode, enumeration and planning
Plan ==
    /\ main.pc = "plan"
    /\ \E m0 \in {IF main.target_in_formats THEN argument_error(main) ELSE main} :
       IF m0.pc = "raised"
       THEN /\ main' = m0
            /\ memo' = memo
            /\ hist' = hist
       ELSE \E p \in {plan_from(1, memo, m0.force, {})} :
               /\ memo' = p.memo
               /\ hist' = [hist EXCEPT !.planSeen = p.seen]
               /\ main' = IF p.raised
                          THEN [m0 EXCEPT !.pc = "raised", !.exc = "exception",
                                          !.jobs = plan_jobs(m0, TRUE)]
                          ELSE [m0 EXCEPT !.pc = "mkdtemp", !.need = p.need,
                                          !.encoder_options = plan_eopts(eopts, p.need),
                                          !.jobs = plan_jobs(m0, p.need)]
    /\ UNCHANGED <<finder, fs, srcExt, workdir, clock, impl, tagCapable, eopts, use_checksum,
                   nuResult, extraDest, pool>>

\* work_dir = tempfile.mkdtemp(...)
Mkdtemp ==
    /\ main.pc = "mkdtemp"
    /\ workdir' = TRUE
    /\ main' = [main EXCEPT !.pc = "enter", !.finished = FALSE, !.canceled = FALSE]
    /\ hist' = [hist EXCEPT !.workCreated = TRUE]
    /\ UNCHANGED <<finder, fs, srcExt, clock, impl, tagCapable, eopts, use_checksum, memo,
                   nuResult, extraDest, pool>>

\* entering the try block: create_dirs and failed_files = [] unless dry_run
Enter ==
    /\ main.pc = "enter"
    /\ main' = [main EXCEPT !.pc = IF main.jobs = 0 THEN "seq_next" ELSE "par_setup",
                            !.failed_bound = ~main.dry_run]
    /\ UNCHANGED <<finder, fs, srcExt, workdir, clock, impl, tagCapable, eopts, use_checksum,
                   memo, nuResult, extraDest, pool, hist>>

\* -------------------------------------------------- per-unit error handling
Par(m) == m.jobs > 0

\* a sequential loop whose "continue" takes the same unit again
Continue_same_unit(m) ==
    IF Par(m)
    THEN [m EXCEPT !.pc = "par_next", !.tfc = NoUnit, !.job = NoUnit, !.op = "none"]
    ELSE [m EXCEPT !.pc = "seq_next", !.tfc = NoUnit, !.job = NoUnit, !.op = "none"]

\* "continue": the next unit of the sequential loop, or the next result
Continue(m) ==
    IF Par(m)
    THEN [m EXCEPT !.pc = "par_next", !.tfc = NoUnit, !.job = NoUnit, !.op = "none"]
    ELSE [m EXCEPT !.pc = "seq_next", !.idx = m.idx + 1, !.tfc = NoUnit,
                   !.job = NoUnit, !.op = "none"]

\* the finally clause of the parallel branch
inner_finally_pool(P) == IF P.state = "alive" THEN [P EXCEPT !.state = "closed"] ELSE P
inner_finally_fs(F, m) ==
    IF m.last_file # PyNone /\ F[m.last_file].exists THEN remove(F, m.last_file) ELSE F

\* an Exception leaves the per-unit loop: control goes to main's finally clause
Unwound(m) ==
    [m EXCEPT !.pc = "fin_unlink", !.exc = "exception", !.tfc = NoUnit,
              !.job = NoUnit, !.op = "none"]

\* the handler of an Exception raised while unit u is in phase ph:
\* logger.exception(..., fname, exc); failed_files.append(fname); continue.
\* A name that is not bound raises NameError inside the handler.
after_raise(m, F, P, H, u, ph) ==
    LET nameError == m.fname = 0 \/ ~m.failed_bound
        H1 == [H EXCEPT
                 !.failLog = Append(@, [culprit |-> u, phase |-> ph,
                                        recorded |-> IF nameError THEN 0 ELSE m.fname]),
                 !.escaped = @ \/ nameError,
                 !.writes = IF nameError THEN @
                            ELSE @ \cup {<<"main", "failed_files", "append">>}]
    IN IF nameError
       THEN [main |-> Unwound(m),
             fs |-> IF Par(m) THEN inner_finally_fs(F, m) ELSE F,
             pool |-> IF Par(m) THEN inner_finally_pool(P) ELSE P,
             hist |-> H1]
       ELSE [main |-> Continue([m EXCEPT !.failed_files = Append(@, m.fname)]),
             fs |-> F, pool |-> P, hist |-> H1]

\* a unit's transfer returned normally; the parallel loop clears last_file
after_ok(m, F, P, H) ==
    [main |-> Continue(IF Par(m) THEN [m EXCEPT !.last_file = PyNone] ELSE m),
     fs |-> F, pool |-> P,
     hist |-> IF Par(m)
              THEN [H EXCEPT !.writes = @ \cup {<<"main", "last_file", "clear">>}]
              ELSE H]

Apply(r) ==
    /\ main' = r.main
    /\ fs' = r.fs
    /\ pool' = r.pool
    /\ hist' = r.hist

\* TransfercodeTemp.transfer ended for unit u by raising / by returning
TempRaised(H, t) ==
    IF t.cls = "TransfercodeTemp" THEN [H EXCEPT !.tempXfer[UnitId(t)] = "raised"] ELSE H

\* ------------------------------------------------------- sequential loop
\* "if tfc.needs_update(loglevel=logging.INFO): fname = tfc.src"
SeqNext ==
    /\ main.pc = "seq_next"
    /\ IF main.idx > NumUnits
       THEN /\ main' = [main EXCEPT !.pc = "orphans"]
            /\ UNCHANGED <<fs, pool, hist, memo>>
       ELSE \E t \in {UnitOf(main.idx)} :
            \E nu \in {needs_update(t, memo[main.idx], fs)} :
               /\ memo' = [memo EXCEPT ![main.idx] = nu.memo]
               /\ IF nu.raised
                  THEN Apply(after_raise(main, fs, pool, hist, main.idx, "needs_update"))
                  ELSE /\ main' = IF nu.val
                                  THEN [main EXCEPT !.pc = "seq_stage", !.fname = main.idx,
                                                    !.tfc = t]
                                  ELSE Continue(main)
                       /\ UNCHANGED <<fs, pool, hist>>
    /\ UNCHANGED <<finder, srcExt, workdir, clock, impl, tagCapable, eopts, use_checksum,
                   nuResult, extraDest>>

\* tfc = tfc.transcode_to_tempdir(tempdir=work_dir, ..., force=force, dry_run=dry_run)
\* up to the start of the engine run
SeqStage ==
    /\ main.pc = "seq_stage"
    /\ \E t \in {main.tfc} :
       \E u \in {UnitId(t)},
          sp \in {stage_plan(t, MemoOf(t), fs, main.force, main.dry_run)},
          sb \in {stage_begin(t, fs, workdir)},
          H1 \in {[hist EXCEPT !.writes = Wrote("main", TempPath(UnitId(t)), "mkstemp")]} :
          /\ memo' = PutMemo(t, sp.memo)
          /\ IF sp.raised
             THEN Apply(after_raise(main, fs, pool, StageCalled(hist, t, MemoOf(t), main.dry_run, 0, 0, "raised"), u, "stage"))
             ELSE IF sp.val = "self"
                  THEN /\ main' = [main EXCEPT !.pc = "xfer"]
                       /\ hist' = StageCalled(hist, t, MemoOf(t), main.dry_run, 0, 0, "self")
                       /\ UNCHANGED <<fs, pool>>
                  ELSE IF sb.raised
                       THEN Apply(after_raise(main, sb.fs, pool,
                                     StageCalled(H1, t, MemoOf(t), main.dry_run,
                                                 IF workdir THEN 1 ELSE 0, 0, "raised"),
                                     u, "stage"))
                       ELSE /\ main' = [main EXCEPT !.pc = "seq_engine",
                                                    !.job = stage_inner(t),
                                                    !.op = "transcode"]
                            /\ fs' = sb.fs
                            /\ hist' = [StageCalled(H1, t, MemoOf(t), main.dry_run, 1, 1, "running")
                                         EXCEPT !.writes =
                                 @ \cup {<<"main", stage_inner(t).dest[1], "transcode">>}]
                            /\ UNCHANGED pool
    /\ UNCHANGED <<finder, srcExt, workdir, clock, impl, tagCapable, eopts, use_checksum,
                   nuResult, extraDest>>

\* the engine run of the staging ends; transcode_to_tempdir returns the temp unit
SeqEngine ==
    /\ main.pc = "seq_engine"
    /\ \E out \in EngineOutcomes :
         \E ee \in {engine_end(main.job, fs, EmptyFile, out)} :
            IF ee.raised
            THEN Apply(after_raise(main, ee.fs, pool,
                                   StageEnded(hist, UnitId(main.tfc), "raised"),
                                   UnitId(main.tfc), "stage"))
            ELSE /\ main' = [main EXCEPT !.pc = "xfer", !.tfc = stage_result(main.tfc),
                                         !.job = NoUnit, !.op = "none"]
                 /\ fs' = ee.fs
                 /\ hist' = StageEnded(hist, UnitId(main.tfc), "temp")
                 /\ UNCHANGED pool
    /\ UNCHANGED <<finder, srcExt, workdir, clock, impl, tagCapable, eopts, use_checksum, memo,
                   nuResult, extraDest>>

\* the fast-copy tool run by copy: it exits with status 0 ("zero"), with another
\* status ("nonzero"), or it cannot be started ("exception")
RsyncOutcomes == {"zero", "nonzero", "exception"}

\* success as copy computes it: "retval = call_silent(...) == 0" is a bool, and
\* "success = (retval == 0)" is True exactly when that bool is False
rsync_success(out) == IF out = "exception" THEN FALSE ELSE (out = "zero") = FALSE

\* Transfercode.copy returned without raising; F1 is the file system it leaves
CopyReturned(H, t, F1) ==
    [H EXCEPT !.copyRet[UnitId(t)] =
        IF F1[t.dest].exists /\ F1[t.dest].data = F1[t.src].data THEN "same"
        ELSE "differs"]

\* transfer returned normally to main, leaving F1; TransfercodeTemp.transfer
\* has then removed its source
transfer_returned(m, t, F1, P, H) ==
    IF t.cls = "TransfercodeTemp"
    THEN after_ok(m, remove(F1, t.src), P,
                  [H EXCEPT !.tempXfer[UnitId(t)] = "returned",
                            !.removed[UnitId(t)] = @ + 1,
                            !.writes = @ \cup {<<"main", t.src[1], "remove">>}])
    ELSE after_ok(m, F1, P, H)

\* ------------------------------------------------ the transfer of one unit
\* tfc.transfer(ffmpeg=..., rsync=..., force=force, dry_run=dry_run) up to the
\* start of the write to the destination
Xfer ==
    /\ main.pc = "xfer"
    /\ \E t \in {main.tfc} :
       \E tp \in {transfer_plan(t, MemoOf(t), fs, workdir, main.force, main.dry_run)} :
       \E u \in {UnitId(t)},
          sc \in {save_checksum(t, tp.memo, fs)},
          H0 \in {[hist EXCEPT !.xfers = @ \cup {UnitId(t)},
                                !.xferCount[UnitId(t)] = @ + 1]} :
       \E Hr \in {TempRaised(H0, t)},
          cannot \in {IF tp.val = "copy" THEN ~(fs[t.src].exists /\ fs[t.src].readable)
                      ELSE audiofile_fails(t, fs)} :
          IF tp.raised
          THEN /\ memo' = PutMemo(t, tp.memo)
               /\ Apply(after_raise(main, fs, pool, Hr, u, "transfer"))
          ELSE IF tp.val = "skip"
          THEN /\ memo' = PutMemo(t, tp.memo)
               /\ Apply(after_ok(main, fs, pool, H0))
          ELSE IF tp.val = "save_checksum"
          THEN /\ memo' = PutMemo(t, sc.memo)
               /\ IF sc.raised
                  THEN Apply(after_raise(main, fs, pool, Hr, u, "transfer"))
                  ELSE Apply(after_ok(main, sc.fs, pool,
                         IF sc.fs = fs THEN H0
                         ELSE [H0 EXCEPT !.writes = Wrote("main", t.dest, "tag")]))
          ELSE /\ memo' = PutMemo(t, tp.memo)
               /\ IF main.dry_run
                  THEN Apply(after_ok(main, fs, pool, H0))
                  ELSE \E out \in IF tp.val # "copy" THEN {"none"}
                                  ELSE IF cannot THEN RsyncOutcomes \ {"zero"}
                                  ELSE RsyncOutcomes :
                       IF tp.val = "copy" /\ rsync_success(out)
                       THEN \E F1 \in {IF out = "zero" THEN copy_done(t, fs) ELSE fs} :
                               Apply(transfer_returned(main, t, F1, pool,
                                                       CopyReturned(H0, t, F1)))
                       ELSE IF cannot
                       THEN Apply(after_raise(main, fs, pool, Hr, u, "transfer"))
                       ELSE /\ main' = [main EXCEPT !.pc = "write", !.job = t,
                                                    !.op = tp.val]
                            /\ fs' = [fs EXCEPT ![t.dest] = PartialFile]
                            /\ hist' = [H0 EXCEPT !.writes = Wrote("main", t.dest, tp.val)]
                            /\ UNCHANGED pool
    /\ UNCHANGED <<finder, srcExt, workdir, clock, impl, tagCapable, eopts, use_checksum,
                   nuResult, extraDest>>

\* the write to the destination ends, by completing or by raising;
\* TransfercodeTemp.transfer then removes its source
Write ==
    /\ main.pc = "write"
    /\ \E ok \in BOOLEAN :
         \E t \in {main.job} :
         \E F1 \in {IF main.op = "copy" THEN copy_done(t, fs) ELSE transcode_done(t, fs)} :
            IF ok
            THEN Apply(transfer_returned(main, t, F1, pool,
                          IF main.op = "copy" THEN CopyReturned(hist, t, F1) ELSE hist))
            ELSE Apply(after_raise(main, fs, pool, TempRaised(hist, t), UnitId(t),
                                   "transfer"))
    /\ UNCHANGED <<finder, srcExt, workdir, clock, impl, tagCapable, eopts, use_checksum, memo,
                   nuResult, extraDest>>

\* --------------------------------------------------------- parallel branch
\* ParallelMethodCaller.__call__: the method's value, or the Exception it raised
\* wrapped with the unit
ParallelMethodCaller(u, raised, kind) ==
    IF raised THEN [u |-> u, kind |-> "exc"] ELSE [u |-> u, kind |-> kind]

\* "transcode_pool = None; last_file = None" and the set-up of the pool
ParSetup ==
    /\ main.pc = "par_setup"
    /\ main' = [main EXCEPT !.pc = "par_next", !.last_file = PyNone]
    /\ pool' = IF main.need
               THEN [NoPool EXCEPT !.state = "alive", !.tasks = SortedUnits]
               ELSE [NoPool EXCEPT !.results =
                       [i \in 1..NumUnits |-> ParallelMethodCaller(i, FALSE, "self")]]
    /\ UNCHANGED <<finder, fs, srcExt, workdir, clock, impl, tagCapable, eopts, use_checksum,
                   memo, nuResult, extraDest, hist>>

\* "for tfc in tqdm(transcoded, ...)": the next result, or the end of the loop
ParNext ==
    /\ main.pc = "par_next"
    /\ IF pool.nread = NumUnits
       THEN /\ main' = [main EXCEPT !.pc = "orphans"]
            /\ pool' = inner_finally_pool(pool)
            /\ fs' = inner_finally_fs(fs, main)
            /\ UNCHANGED hist
       ELSE /\ pool.results # <<>>
            /\ \E r \in {Head(pool.results)},
                  P1 \in {[pool EXCEPT !.results = Tail(@), !.nread = @ + 1]} :
                  IF r.kind = "exc"
                  THEN Apply(after_raise([main EXCEPT !.fname = r.u], fs, P1, hist,
                                         r.u, "stage"))
                  ELSE /\ main' = [main EXCEPT !.pc = "xfer",
                                     !.tfc = IF r.kind = "temp"
                                             THEN stage_result(UnitOf(r.u))
                                             ELSE UnitOf(r.u)]
                       /\ pool' = P1
                       /\ UNCHANGED <<fs, hist>>
    /\ UNCHANGED <<finder, srcExt, workdir, clock, impl, tagCapable, eopts, use_checksum, memo,
                   nuResult, extraDest>>

Deliver(P, r) == IF P.state = "terminated" THEN P ELSE [P EXCEPT !.results = Append(@, r)]

\* the method called in a worker on unit u raised an Exception
StageRaised(H, u) ==
    IF pool.state = "terminated" THEN H ELSE [H EXCEPT !.stageExc = @ \cup {u}]

\* a worker thread takes the next task of the pool
WorkerTake(w) ==
    /\ pool.state \in {"alive", "closed"}
    /\ pool.tasks # <<>>
    /\ w <= main.jobs
    /\ pool.workers[w].st = "idle"
    /\ \A v \in Workers : v < w => pool.workers[v].st # "idle"
    /\ pool' = [pool EXCEPT !.tasks = Tail(@),
                            !.workers[w] = [st |-> "taken", u |-> Head(pool.tasks)]]
    /\ UNCHANGED <<finder, fs, srcExt, workdir, clock, impl, tagCapable, eopts, use_checksum,
                   memo, nuResult, extraDest, main, hist>>

\* tfunc(unit) in a worker: transcode_to_tempdir(tempdir=work_dir, ..., force=force)
\* up to the start of the engine run
WorkerBegin(w) ==
    /\ pool.workers[w].st = "taken"
    /\ \E u \in {pool.workers[w].u} :
       \E t \in {UnitOf(u)} :
       \E sp \in {stage_plan(t, memo[u], fs, main.force, FALSE)},
          sb \in {stage_begin(t, fs, workdir)},
          H1 \in {IF workdir
                  THEN [hist EXCEPT !.writes = Wrote("worker", TempPath(u), "mkstemp")]
                  ELSE hist},
          idle \in {[pool EXCEPT !.workers[w] = IdleWorker]} :
          /\ memo' = [memo EXCEPT ![u] = sp.memo]
          /\ IF sp.raised \/ sp.val = "self"
             THEN /\ pool' = Deliver(idle, ParallelMethodCaller(u, sp.raised, "self"))
                  /\ hist' = IF sp.raised
                             THEN StageRaised(StageCalled(hist, t, memo[u], FALSE, 0, 0,
                                                          "raised"), u)
                             ELSE StageCalled(hist, t, memo[u], FALSE, 0, 0, "self")
                  /\ fs' = fs
             ELSE /\ fs' = sb.fs
                  /\ IF sb.raised
                     THEN /\ pool' = Deliver(idle, ParallelMethodCaller(u, TRUE, "temp"))
                          /\ hist' = StageRaised(StageCalled(H1, t, memo[u], FALSE,
                                         IF workdir THEN 1 ELSE 0, 0, "raised"), u)
                     ELSE /\ pool' = [pool EXCEPT !.workers[w].st = "engine"]
                          /\ hist' = [StageCalled(H1, t, memo[u], FALSE, 1, 1, "running")
                                      EXCEPT !.writes =
                               @ \cup {<<"worker", stage_inner(t).dest[1], "transcode">>}]
    /\ UNCHANGED <<finder, srcExt, workdir, clock, impl, tagCapable, eopts, use_checksum,
                   nuResult, extraDest, main>>

\* the engine run of a worker ends and tfunc returns
WorkerEnd(w) ==
    /\ pool.workers[w].st = "engine"
    /\ \E out \in EngineOutcomes :
         \E u \in {pool.workers[w].u} :
         \E ee \in {engine_end(stage_inner(UnitOf(u)), fs, EmptyFile, out)} :
            /\ fs' = ee.fs
            /\ pool' = Deliver([pool EXCEPT !.workers[w] = IdleWorker],
                               ParallelMethodCaller(u, ee.raised, "temp"))
            /\ hist' = IF ee.raised
                       THEN StageRaised(StageEnded(hist, u, "raised"), u)
                       ELSE StageEnded(hist, u, "temp")
    /\ UNCHANGED <<finder, srcExt, workdir, clock, impl, tagCapable, eopts, use_checksum, memo,
                   nuResult, extraDest, main>>

\* ------------------------------------------------------------ interruption
\* the positions of main at which a KeyboardInterrupt is modelled: after mkdtemp
\* and inside the try block
LoopPcs == {"seq_next", "seq_stage", "seq_engine", "par_setup", "par_next", "xfer", "write"}
TryPcs == LoopPcs \cup {"orphans", "rm_unlink", "rm_rmdir"}

\* the units whose engine run is in progress
EngineUnits ==
    (IF main.pc = "seq_engine" \/ (main.pc = "write" /\ main.op = "transcode")
     THEN {UnitId(main.tfc)} ELSE {})
    \cup {pool.workers[w].u : w \in {v \in Workers : pool.workers[v].st = "engine"}}

terminate_as_close(P) == IF P.state = "none" THEN P ELSE [P EXCEPT !.state = "closed"]

\* pool.terminate(): the queued tasks are dropped; the thread of a task that is
\* running is neither stopped nor joined
terminate(P) ==
    IF P.state = "none" THEN P
    ELSE [P EXCEPT !.state = "terminated", !.tasks = <<>>, !.results = <<>>]

\* KeyboardInterrupt in the main thread, and the except and finally clauses it runs
Interrupt ==
    /\ ~main.interrupted
    /\ main.pc \in TryPcs \cup {"enter"}
    /\ hist' = [hist EXCEPT !.intr =
                  [at |-> main.pc,
                   xfer |-> IF main.pc = "write" /\ main.job.dest[1] = "dest"
                            THEN UnitId(main.job) ELSE 0,
                   engines |-> EngineUnits]]
    /\ IF main.pc = "enter"
       THEN /\ main' = [main EXCEPT !.pc = "raised", !.exc = "kbd", !.interrupted = TRUE]
            /\ UNCHANGED <<fs, pool>>
       ELSE IF Par(main) /\ main.pc \in LoopPcs
            THEN /\ main' = [main EXCEPT !.pc = "fin_unlink", !.interrupted = TRUE,
                                         !.delete = FALSE, !.canceled = TRUE,
                                         !.finished = FALSE]
                 /\ pool' = terminate(pool)
                 /\ fs' = inner_finally_fs(fs, main)
            ELSE /\ main' = [main EXCEPT !.pc = "fin_unlink", !.interrupted = TRUE,
                                         !.canceled = TRUE, !.finished = FALSE]
                 /\ UNCHANGED <<fs, pool>>
    /\ UNCHANGED <<finder, srcExt, workdir, clock, impl, tagCapable, eopts, use_checksum, memo,
                   nuResult, extraDest>>

\* ------------------------------------------------------------------ cleanup
\* "if delete: for f in df.walk_extra_dest_files(): ... os.remove(f)"
Orphans ==
    /\ main.pc = "orphans"
    /\ extraDest' = IF main.delete /\ ~main.dry_run THEN FALSE ELSE extraDest
    /\ main' = [main EXCEPT !.pc = IF workdir THEN "rm_unlink" ELSE "fin_unlink"]
    /\ hist' = [hist EXCEPT !.orphans = TRUE]
    /\ UNCHANGED <<finder, fs, srcExt, workdir, clock, impl, tagCapable, eopts, use_checksum,
                   memo, nuResult, pool>>

\* shutil.rmtree(work_dir, ignore_errors=True), first half: the entries found are unlinked
rmtree_unlink(F) == [p \in Paths |-> IF p[1] = "temp" THEN NoFile ELSE F[p]]
\* second half: rmdir, which fails (and is ignored) when the directory is not empty
rmtree_rmdir(F, wd) == wd /\ \E u \in Units : F[TempPath(u)].exists

RmUnlink ==
    /\ main.pc = "rm_unlink"
    /\ fs' = rmtree_unlink(fs)
    /\ main' = [main EXCEPT !.pc = "rm_rmdir"]
    /\ UNCHANGED <<finder, srcExt, workdir, clock, impl, tagCapable, eopts, use_checksum, memo,
                   nuResult, extraDest, pool, hist>>

\* the end of rmtree and "finished = True"
RmRmdir ==
    /\ main.pc = "rm_rmdir"
    /\ workdir' = rmtree_rmdir(fs, workdir)
    /\ main' = [main EXCEPT !.pc = "fin_unlink", !.finished = TRUE]
    /\ UNCHANGED <<finder, fs, srcExt, clock, impl, tagCapable, eopts, use_checksum, memo,
                   nuResult, extraDest, pool, hist>>

\* main's finally clause: "if work_dir and os.path.exists(work_dir): rmtree"
FinUnlink ==
    /\ main.pc = "fin_unlink"
    /\ fs' = IF workdir THEN rmtree_unlink(fs) ELSE fs
    /\ main' = [main EXCEPT !.pc = IF workdir THEN "fin_rmdir" ELSE "summary"]
    /\ UNCHANGED <<finder, srcExt, workdir, clock, impl, tagCapable, eopts, use_checksum, memo,
                   nuResult, extraDest, pool, hist>>

FinRmdir ==
    /\ main.pc = "fin_rmdir"
    /\ workdir' = rmtree_rmdir(fs, workdir)
    /\ main' = [main EXCEPT !.pc = "summary"]
    /\ UNCHANGED <<finder, fs, srcExt, clock, impl, tagCapable, eopts, use_checksum, memo,
                   nuResult, extraDest, pool, hist>>

\* "if failed_files: ..." and the end of main: it returns ("done") or an
\* exception leaves it ("raised")
Summary ==
    /\ main.pc = "summary"
    /\ main' = IF ~main.failed_bound
               THEN [main EXCEPT !.pc = "raised", !.exc = "exception"]
               ELSE [main EXCEPT !.pc = IF main.exc = "none" THEN "done" ELSE "raised"]
    /\ hist' = [hist EXCEPT !.summary = IF main.failed_bound THEN "produced" ELSE "raised"]
    /\ UNCHANGED <<finder, fs, srcExt, workdir, clock, impl, tagCapable, eopts, use_checksum,
                   memo, nuResult, extraDest, pool>>

\* ------------------------------------------------------ DestinationFinder
\* path strings are sequences of characters; a path is kept as the sequence of
\* its components where the code has it normalised
Alphabet == <<".", "/", "3", "A", "C", "F", "L", "a", "b", "c", "d", "f", "g", "h",
              "l", "m", "o", "p", "s">>
ord(c) == CHOOSE i \in 1..Len(Alphabet) : Alphabet[i] = c

Str == [flac |-> <<"f", "l", "a", "c">>, FLAC |-> <<"F", "L", "A", "C">>,
        ogg |-> <<"o", "g", "g">>, mp3 |-> <<"m", "p", "3">>]

\* DestinationFinder.__init__ as main calls it
src_dir == << <<"m">>, <<"s">> >>
dest_dir == << <<"m">>, <<"d">> >>
src_exts == {Str[e] : e \in transcode_formats}
dest_ext == Str[target_format]

\* "/".join(components)
RECURSIVE sep_join(_)
sep_join(cs) ==
    IF cs = <<>> THEN <<>>
    ELSE IF Len(cs) = 1 THEN cs[1]
    ELSE cs[1] \o <<"/">> \o sep_join(Tail(cs))

\* the string of an absolute path
abs_str(cs) == <<"/">> \o sep_join(cs)

\* os.path.join(dir, rel) for a relative rel
path_join(dir, rel) == abs_str(dir) \o <<"/">> \o rel

\* the length of the longest common prefix of two component sequences
common(a, b) ==
    CHOOSE i \in 0..Len(a) :
        /\ i <= Len(b)
        /\ \A k \in 1..i : a[k] = b[k]
        /\ (i < Len(a) /\ i < Len(b)) => a[i + 1] # b[i + 1]

\* os.path.relpath(path, start) on absolute normalised paths
relpath(path, start) ==
    LET i == common(path, start)
        rel_list == [k \in 1..(Len(start) - i) |-> <<".", ".">>]
                    \o SubSeq(path, i + 1, Len(path))
    IN IF rel_list = <<>> THEN <<".">> ELSE sep_join(rel_list)

\* str.startswith
startswith(x, prefix) == Len(x) >= Len(prefix) /\ SubSeq(x, 1, Len(prefix)) = prefix

is_subpath_always(path, parent) == TRUE

\* is_subpath: "not os.path.relpath(path, parent)[0:2].startswith(os.path.pardir)"
is_subpath(path, parent) ==
    LET r == relpath(path, parent)
    IN ~startswith(SubSeq(r, 1, IF Len(r) < Len(<<".", ".">>) THEN Len(r)
                                  ELSE Len(<<".", ".">>)),
                   <<".", ".">>)

\* str.rfind, counted from 1; 0 when the character does not occur
rfind(x, c) ==
    IF \E i \in 1..Len(x) : x[i] = c
    THEN CHOOSE i \in 1..Len(x) : x[i] = c /\ \A k \in (i + 1)..Len(x) : x[k] # c
    ELSE 0

\* os.path.splitext: the extension starts at the last dot of the last component,
\* unless only dots precede it there
splitext(x) ==
    LET sepIndex == rfind(x, "/")
        dotIndex == rfind(x, ".")
    IN IF dotIndex > sepIndex /\ \E k \in (sepIndex + 1)..(dotIndex - 1) : x[k] # "."
       THEN [base |-> SubSeq(x, 1, dotIndex - 1), ext |-> SubSeq(x, dotIndex, Len(x))]
       ELSE [base |-> x, ext |-> <<>>]

\* splitext_afterdot: the dot goes to the base
splitext_afterdot(x) ==
    LET r == splitext(x)
    IN IF Len(r.ext) > 0 /\ r.ext[1] = "."
       THEN [base |-> r.base \o <<".">>, ext |-> Tail(r.ext)]
       ELSE r

\* an argument of find_dest: an absolute path, or a path without leading "/"
SrcArg(isabs, comps) == [isabs |-> isabs, path |-> comps]

\* DestinationFinder.find_dest: the destination string, or the exception raised;
\* base and ext are bound only in the branch of an absolute path
find_dest(src) ==
    IF src.isabs
    THEN IF ~is_subpath(src.path, src_dir)
         THEN [raised |-> "ValueError", val |-> <<>>]
         ELSE LET rel == relpath(src.path, src_dir)
                  se == splitext_afterdot(rel)
              IN [raised |-> "none",
                  val |-> path_join(dest_dir, IF se.ext \in src_exts
                                              THEN se.base \o dest_ext ELSE rel)]
    ELSE [raised |-> "UnboundLocalError", val |-> <<>>]

\* Transfercode.__init__ on path strings: self.src_ext != self.dest_ext
needs_transcode(src, dest) == splitext_afterdot(src).ext # splitext_afterdot(dest).ext

\* del_hidden leaves the names that do not start with a dot
visible(rel) == \A i \in 1..Len(rel) : rel[i][1] # "."

\* walk_files(dir, hidden): the files of a tree, given as paths relative to dir
walk_files(dir, tree, hidden) == {dir \o f : f \in {g \in tree : hidden \/ visible(g)}}

\* the order of Python strings
RECURSIVE str_lt(_, _)
str_lt(a, b) ==
    IF b = <<>> THEN FALSE
    ELSE IF a = <<>> THEN TRUE
    ELSE IF a[1] = b[1] THEN str_lt(Tail(a), Tail(b))
    ELSE ord(a[1]) < ord(b[1])

\* sorted(set)
RECURSIVE sorted(_)
sorted(S) ==
    IF S = {} THEN <<>>
    ELSE LET least == CHOOSE x \in S : \A y \in S \ {x} : str_lt(x, y)
         IN <<least>> \o sorted(S \ {least})

\* DestinationFinder.walk_target_files: map(self.find_dest, self.walk_source_files()),
\* a new iterator at each call
walk_target_files(srcTree, hidden) ==
    {find_dest(SrcArg(TRUE, s)) : s \in walk_files(src_dir, srcTree, hidden)}

\* DestinationFinder.walk_extra_dest_files: the list, or the exception of a
\* find_dest; the target files are walked twice
walk_extra_dest_files(srcTree, destTree, hidden) ==
    LET target_files == walk_target_files(srcTree, hidden)
        again == walk_target_files(srcTree, hidden)
        existing == {abs_str(d) : d \in walk_files(dest_dir, destTree, hidden)}
    IN IF \E t \in target_files \cup again : t.raised # "none"
       THEN [raised |-> "ValueError", val |-> <<>>]
       ELSE [raised |-> "none", val |-> sorted(existing \ {t.val : t \in again})]

\* DestinationFinder.walk_source_target_pairs: (src, self.find_dest(src)) for
\* every file of the source tree; the second member is a path or the exception
\* that ends the iteration
walk_source_target_pairs(srcTree, hidden) ==
    {[src |-> s, dest |-> find_dest(SrcArg(TRUE, s))] :
        s \in walk_files(src_dir, srcTree, hidden)}

NoResult == [raised |-> "not called", val |-> <<>>]
NoFinder == [mode |-> "none", src |-> SrcArg(FALSE, <<>>), res |-> NoResult,
             needs_transcode |-> FALSE, srcTree |-> {}, destTree |-> {},
             hidden |-> FALSE, extras |-> <<>>, paired |-> FALSE, pairs |-> {}]

\* ------------------------------------------------------------ specification
\* the destination files a run can find: none, or an older file with or without
\* a checksum tag
SrcFileOf(c, mt, rd) == [MkFile(<<c>>, PyNone, mt) EXCEPT !.readable = rd]
OldTags(e) == {PyNone} \cup {Hash(<<c>>, e) : c \in Contents}

\* the file system before a run: every source is a file; a destination is absent
\* or an earlier file; a copy-only destination carries no checksum tag
MkFs(srcs, dests) ==
    [p \in Paths |-> IF p[1] = "src" THEN srcs[p[2]]
                     ELSE IF p[1] = "dest" THEN dests[p[2]] ELSE NoFile]

SrcChoices(srcMts) == {SrcFileOf("a", mt, rd) : mt \in srcMts, rd \in BOOLEAN}
DestChoices(e, destMts) ==
    {NoFile} \cup {MkFile(<<"old">>, tg, mt) : tg \in OldTags(e), mt \in destMts}

InitFs(F, ext, e, srcMts, destMts) ==
    \E srcs \in [Units -> SrcChoices(srcMts)], dests \in [Units -> DestChoices(e, destMts)] :
       /\ \A u \in Units : ext[u] \notin transcode_formats => dests[u].tag = PyNone
       /\ F = MkFs(srcs, dests)

Init ==
    /\ srcExt \in [Units -> {"flac", "mp3"}]
    /\ eopts = "q5"
    /\ use_checksum \in BOOLEAN
    /\ impl = "script"
    /\ tagCapable = TRUE
    /\ clock = 1
    /\ InitFs(fs, srcExt, eopts, {1}, {0, MaxMtime})
    /\ workdir = FALSE
    /\ extraDest = TRUE
    /\ memo = [u \in Units |-> FreshMemo]
    /\ nuResult = [u \in Units |-> "none"]
    /\ \E frc \in BOOLEAN, dry \in BOOLEAN, j \in {0, MaxJobs}, tf \in BOOLEAN :
          main = [InitMain(frc, dry, TRUE, j) EXCEPT !.target_in_formats = tf]
    /\ pool = NoPool
    /\ hist = InitHist(fs)
    /\ finder = NoFinder

Next ==
    \/ Plan \/ Mkdtemp \/ Enter
    \/ SeqNext \/ SeqStage \/ SeqEngine
    \/ Xfer \/ Write
    \/ ParSetup \/ ParNext
    \/ \E w \in Workers : WorkerTake(w) \/ WorkerBegin(w) \/ WorkerEnd(w)
    \/ Interrupt
    \/ Orphans \/ RmUnlink \/ RmRmdir \/ FinUnlink \/ FinRmdir \/ Summary

Spec == Init /\ [][Next]_vars

\* ------------------------------------------------------------- fairness
\* the main thread takes its next step, and so does every worker thread of the
\* pool: every subprocess call and file operation returns. A KeyboardInterrupt
\* may or may not arrive.
MainStep ==
    \/ Plan \/ Mkdtemp \/ Enter
    \/ SeqNext \/ SeqStage \/ SeqEngine
    \/ Xfer \/ Write
    \/ ParSetup \/ ParNext
    \/ Orphans \/ RmUnlink \/ RmRmdir \/ FinUnlink \/ FinRmdir \/ Summary

WorkerStep(w) == WorkerTake(w) \/ WorkerBegin(w) \/ WorkerEnd(w)

\* runs of main that are not dry runs and pass the argument check
InitLive ==
    /\ srcExt \in [Units -> {"flac", "mp3"}]
    /\ eopts = "q5"
    /\ use_checksum = TRUE
    /\ impl = "script"
    /\ tagCapable = TRUE
    /\ clock = 1
    /\ InitFs(fs, srcExt, eopts, {1}, {0, MaxMtime})
    /\ workdir = FALSE
    /\ extraDest = TRUE
    /\ memo = [u \in Units |-> FreshMemo]
    /\ nuResult = [u \in Units |-> "none"]
    /\ \E j \in {0, MaxJobs} : main = InitMain(FALSE, FALSE, TRUE, j)
    /\ pool = NoPool
    /\ hist = InitHist(fs)
    /\ finder = NoFinder

SpecLive ==
    /\ InitLive /\ [][Next]_vars
    /\ WF_vars(MainStep)
    /\ \A w \in Workers : WF_vars(WorkerStep(w))

\* ---------------------------------------------- needs_update on its own
\* one fresh Transfercode per unit, over every state of the files of unit 1, in
\* both implementations
OracleEopts == EoptsChoices \cup {NoEopts, ""}
OracleTags == {PyNone} \cup {Hash(<<c>>, e) : c \in Contents, e \in OracleEopts}

InitOracle ==
    /\ srcExt \in {[u \in Units |-> IF u = 1 THEN e ELSE "mp3"] : e \in {"flac", "mp3"}}
    /\ eopts \in OracleEopts
    /\ use_checksum \in BOOLEAN
    /\ impl \in {"script", "package"}
    /\ tagCapable = TRUE
    /\ clock = MaxMtime
    /\ \E s \in SrcChoices(Mtimes),
          d \in {NoFile} \cup {MkFile(<<"old">>, tg, mt) : tg \in OracleTags, mt \in Mtimes} :
          fs = MkFs([u \in Units |-> IF u = 1 THEN s ELSE SrcFileOf("a", 1, TRUE)],
                    [u \in Units |-> IF u = 1 THEN d ELSE NoFile])
    /\ workdir = FALSE
    /\ extraDest = FALSE
    /\ memo = [u \in Units |-> FreshMemo]
    /\ nuResult = [u \in Units |-> "none"]
    /\ main = [InitMain(FALSE, FALSE, FALSE, 0) EXCEPT !.pc = "oracle"]
    /\ pool = NoPool
    /\ hist = InitHist(fs)
    /\ finder = NoFinder

\* tfc.needs_update() on the fresh Transfercode of unit u
NeedsUpdateCall(u) ==
    /\ main.pc = "oracle"
    /\ nuResult[u] = "none"
    /\ \E nu \in {needs_update(UnitOf(u), memo[u], fs)} :
          /\ nuResult' = [nuResult EXCEPT ![u] = IF nu.raised THEN "raised"
                                                ELSE IF nu.val THEN "True" ELSE "False"]
          /\ memo' = [memo EXCEPT ![u] = nu.memo]
    /\ UNCHANGED <<finder, fs, srcExt, workdir, clock, impl, tagCapable, eopts, use_checksum,
                   extraDest, main, pool, hist>>

\* the bytes of the source of unit u are replaced, at any modification time, and
\* a fresh Transfercode is made for it
SourceEdited(u) ==
    /\ main.pc = "oracle"
    /\ nuResult[u] # "none"
    /\ \A v \in Units : hist.changed[v] = "none"
    /\ \E c \in Contents \ {fs[SrcPath(u)].data[1]}, mt \in Mtimes :
          fs' = [fs EXCEPT ![SrcPath(u)].data = <<c>>, ![SrcPath(u)].mtime = mt]
    /\ memo' = [memo EXCEPT ![u] = FreshMemo]
    /\ nuResult' = [nuResult EXCEPT ![u] = "none"]
    /\ hist' = [hist EXCEPT !.changed[u] = "bytes", !.nu0 = nuResult, !.eopts0 = eopts]
    /\ UNCHANGED <<finder, srcExt, workdir, clock, impl, tagCapable, eopts, use_checksum,
                   extraDest, main, pool>>

\* the next Transfercode objects are made with other encoder options, over the
\* same files
EoptsChanged ==
    /\ main.pc = "oracle"
    /\ \E u \in Units : nuResult[u] # "none"
    /\ \A v \in Units : hist.changed[v] = "none"
    /\ eopts' \in OracleEopts \ {eopts}
    /\ memo' = [u \in Units |-> FreshMemo]
    /\ nuResult' = [u \in Units |-> "none"]
    /\ hist' = [hist EXCEPT !.changed = [u \in Units |-> "eopts"], !.nu0 = nuResult,
                            !.eopts0 = eopts]
    /\ UNCHANGED <<finder, fs, srcExt, workdir, clock, impl, tagCapable, use_checksum,
                   extraDest, main, pool>>

NextOracle ==
    \/ \E u \in Units : NeedsUpdateCall(u) \/ SourceEdited(u)
    \/ EoptsChanged

SpecOracle == InitOracle /\ [][NextOracle]_vars

\* --------------------------------------- a run without encoder options
\* main is started without --encoder-options: encoder_options is None
InitDefaults ==
    /\ srcExt \in [Units -> {"flac", "mp3"}]
    /\ eopts = NoEopts
    /\ use_checksum \in BOOLEAN
    /\ impl = "script"
    /\ tagCapable = TRUE
    /\ clock = 1
    /\ InitFs(fs, srcExt, eopts, {1}, {0, MaxMtime})
    /\ workdir = FALSE
    /\ extraDest = TRUE
    /\ memo = [u \in Units |-> FreshMemo]
    /\ nuResult = [u \in Units |-> "none"]
    /\ \E j \in {0, MaxJobs} : main = InitMain(FALSE, FALSE, TRUE, j)
    /\ pool = NoPool
    /\ hist = InitHist(fs)
    /\ finder = NoFinder

SpecDefaults == InitDefaults /\ [][Next]_vars

\* ------------------------------------------ one Transfercode on its own
\* the methods of one Transfercode object (unit 1: a source that needs
\* transcoding) called in any order, at most MaxUnitCalls times, over every
\* state of its two files; the destination may also be an empty file, as
\* mkstemp leaves it, and the source may have gone since the unit was built
InitUnit ==
    /\ srcExt = [u \in Units |-> IF u = 1 THEN "flac" ELSE "mp3"]
    /\ eopts = "q5"
    /\ use_checksum \in BOOLEAN
    /\ impl \in {"script", "package"}
    /\ tagCapable = TRUE
    /\ clock = MaxMtime
    /\ \E s \in SrcChoices(Mtimes) \cup {NoFile},
          d \in DestChoices(eopts, Mtimes) \cup {MkFile(<<>>, PyNone, MaxMtime)} :
          fs = MkFs([u \in Units |-> IF u = 1 THEN s ELSE SrcFileOf("a", 1, TRUE)],
                    [u \in Units |-> IF u = 1 THEN d ELSE NoFile])
    /\ workdir = TRUE
    /\ extraDest = FALSE
    /\ memo = [u \in Units |-> FreshMemo]
    /\ nuResult = [u \in Units |-> "none"]
    /\ main = [InitMain(FALSE, FALSE, FALSE, 0) EXCEPT !.pc = "unit"]
    /\ pool = NoPool
    /\ hist = InitHist(fs)
    /\ finder = NoFinder

Called(op, out, raised) ==
    [hist EXCEPT !.last = [op |-> op, out |-> out, raised |-> raised, n |-> @.n + 1]]

\* tfc.needs_update()
UnitNeedsUpdate(u) ==
    /\ main.pc = "unit"
    /\ hist.last.n < MaxUnitCalls
    /\ \E nu \in {needs_update(UnitOf(u), memo[u], fs)} :
          /\ nuResult' = [nuResult EXCEPT ![u] = IF nu.raised THEN "raised"
                                                ELSE IF nu.val THEN "True" ELSE "False"]
          /\ memo' = [memo EXCEPT ![u] = nu.memo]
          /\ hist' = Called("needs_update", "none", nu.raised)
    /\ UNCHANGED <<finder, fs, srcExt, workdir, clock, impl, tagCapable, eopts, use_checksum,
                   extraDest, main, pool>>

\* tfc.transcode(): the engine writes to the unit's destination
UnitTranscode(u) ==
    /\ main.pc = "unit"
    /\ hist.last.n < MaxUnitCalls
    /\ \E out \in EngineOutcomes :
       \E r \in {transcode(UnitOf(u), memo[u], fs, out)} :
          /\ fs' = r.fs
          /\ memo' = [memo EXCEPT ![u] = r.memo]
          /\ hist' = Called("transcode", out, r.raised)
    /\ UNCHANGED <<finder, srcExt, workdir, clock, impl, tagCapable, eopts, use_checksum,
                   nuResult, extraDest, main, pool>>

\* tfc.save_checksum()
UnitSaveChecksum(u) ==
    /\ main.pc = "unit"
    /\ hist.last.n < MaxUnitCalls
    /\ \E sc \in {save_checksum(UnitOf(u), memo[u], fs)} :
          /\ fs' = sc.fs
          /\ memo' = [memo EXCEPT ![u] = sc.memo]
          /\ hist' = Called("save_checksum", "none", sc.raised)
    /\ UNCHANGED <<finder, srcExt, workdir, clock, impl, tagCapable, eopts, use_checksum,
                   nuResult, extraDest, main, pool>>

\* what a call of transfer or transcode_to_tempdir leaves on record: its force
\* and dry_run arguments, whether check() was invoked in it and how it ended
\* ("no", "passed", "failed"), and the paths whose file the call changed
CalledWith(op, out, raised, frc, dry, chk, F1) ==
    [hist EXCEPT !.last = [op |-> op, out |-> out, raised |-> raised, n |-> @.n + 1,
                           force |-> frc, dry_run |-> dry, checked |-> chk,
                           touched |-> {p \in Paths : F1[p] # fs[p]}]]

\* "if force or self.needs_update(): if not dry_run: self.check()"
check_outcome(t, m, F, wd, frc, dry) ==
    IF dry THEN "no"
    ELSE IF ~frc /\ (needs_update(t, m, F).raised \/ ~needs_update(t, m, F).val) THEN "no"
    ELSE IF check_fails(t, F, wd) THEN "failed" ELSE "passed"

\* tfc.transfer(force=frc, dry_run=dry), no transcode_tempdir, as one step
UnitTransfer(u) ==
    /\ main.pc = "unit"
    /\ hist.last.n < MaxUnitCalls
    /\ \E frc, dry \in BOOLEAN, out \in EngineOutcomes :
       \E t \in {UnitOf(u)} :
       \E tp \in {transfer_plan(t, memo[u], fs, workdir, frc, dry)},
          chk \in {check_outcome(t, memo[u], fs, workdir, frc, dry)} :
       \E r \in {IF tp.raised \/ tp.val = "skip" \/ dry
                  THEN [fs |-> fs, memo |-> tp.memo, raised |-> tp.raised]
                  ELSE IF tp.val = "transcode" THEN transcode(t, tp.memo, fs, out)
                  ELSE IF tp.val = "save_checksum" THEN save_checksum(t, tp.memo, fs)
                  ELSE [fs |-> copy_done(t, fs), memo |-> tp.memo, raised |-> FALSE]} :
          /\ (out # "written") => (~tp.raised /\ tp.val = "transcode" /\ ~dry)
          /\ fs' = r.fs
          /\ memo' = [memo EXCEPT ![u] = r.memo]
          /\ hist' = CalledWith("transfer", out, r.raised, frc, dry, chk, r.fs)
    /\ UNCHANGED <<finder, srcExt, workdir, clock, impl, tagCapable, eopts, use_checksum,
                   nuResult, extraDest, main, pool>>

\* tfc.transcode_to_tempdir(tempdir=work_dir, force=frc, dry_run=dry) as one step:
\* dry_run is a named parameter, so the inner transfer never receives it
UnitStage(u) ==
    /\ main.pc = "unit"
    /\ hist.last.n < MaxUnitCalls
    /\ \E frc, dry \in BOOLEAN, out \in EngineOutcomes :
       \E t \in {UnitOf(u)} :
       \E sp \in {stage_plan(t, memo[u], fs, frc, dry)},
          sb \in {stage_begin(t, fs, workdir)} :
       \E staged \in {~sp.raised /\ sp.val = "stage"} :
       \E r \in {IF ~staged THEN [fs |-> fs, raised |-> sp.raised]
                  ELSE IF sb.raised THEN sb
                  ELSE engine_end(stage_inner(t), sb.fs, EmptyFile, out)} :
          /\ (out # "written") => (staged /\ ~sb.raised)
          /\ fs' = r.fs
          /\ memo' = [memo EXCEPT ![u] = sp.memo]
          /\ hist' = CalledWith("stage", out, r.raised, frc, dry,
                                IF staged /\ workdir
                                THEN check_outcome(stage_inner(t), FreshMemo, fs, workdir,
                                                   TRUE, FALSE)
                                ELSE "no", r.fs)
    /\ UNCHANGED <<finder, srcExt, workdir, clock, impl, tagCapable, eopts, use_checksum,
                   nuResult, extraDest, main, pool>>

NextUnit ==
    \E u \in {1} : \/ UnitNeedsUpdate(u) \/ UnitTranscode(u) \/ UnitSaveChecksum(u)
                    \/ UnitTransfer(u) \/ UnitStage(u)

SpecUnit == InitUnit /\ [][NextUnit]_vars

\* ------------------------------------------------- two runs in succession
\* the source tree may hold files dated later than the first run
InitTwice ==
    /\ srcExt \in [Units -> {"flac", "mp3"}]
    /\ eopts = "q5"
    /\ use_checksum \in BOOLEAN
    /\ impl = "script"
    /\ tagCapable \in BOOLEAN
    /\ clock = 1
    /\ InitFs(fs, srcExt, eopts, {0, MaxMtime}, {0})
    /\ \A u \in Units : fs[SrcPath(u)].readable
    /\ workdir = FALSE
    /\ extraDest = TRUE
    /\ memo = [u \in Units |-> FreshMemo]
    /\ nuResult = [u \in Units |-> "none"]
    /\ \E j \in {0, MaxJobs} : main = InitMain(FALSE, FALSE, TRUE, j)
    /\ pool = NoPool
    /\ hist = InitHist(fs)
    /\ finder = NoFinder

\* main is run again with the same options, on the same source tree, after a
\* first run that returned without failures and without being interrupted
SecondRun ==
    /\ main.pc = "done"
    /\ hist.run = 1
    /\ main.failed_files = <<>>
    /\ ~main.interrupted
    /\ main' = InitMain(main.force, main.dry_run, TRUE, main.jobs_opt)
    /\ pool' = NoPool
    /\ memo' = [u \in Units |-> FreshMemo]
    /\ clock' = clock + 1
    /\ hist' = [InitHist(fs) EXCEPT !.run = 2]
    /\ UNCHANGED <<finder, fs, srcExt, workdir, impl, tagCapable, eopts, use_checksum, nuResult,
                   extraDest>>

NextTwice == Next \/ SecondRun

SpecTwice == InitTwice /\ [][NextTwice]_vars

\* --------------------------------------- the same run in the other mode
\* main is run sequentially (--jobs 0) on trees whose sources are all readable
InitPair ==
    /\ srcExt \in [Units -> {"flac", "mp3"}]
    /\ eopts = "q5"
    /\ use_checksum \in BOOLEAN
    /\ impl = "script"
    /\ tagCapable = TRUE
    /\ clock = 1
    /\ InitFs(fs, srcExt, eopts, {1}, {0, MaxMtime})
    /\ \A u \in Units : fs[SrcPath(u)].readable
    /\ workdir = FALSE
    /\ extraDest = TRUE
    /\ memo = [u \in Units |-> FreshMemo]
    /\ nuResult = [u \in Units |-> "none"]
    /\ \E frc \in BOOLEAN : main = InitMain(frc, FALSE, TRUE, 0)
    /\ pool = NoPool
    /\ hist = InitHist(fs)
    /\ finder = NoFinder

\* no engine run, copy or tag access of the run failed
CleanRun ==
    /\ hist.failLog = <<>> /\ ~hist.escaped
    /\ \A u \in Units : hist.copyRet[u] # "differs"

\* the set of the entries of failed_files
FailedSet(m) == {m.failed_files[i] : i \in 1..Len(m.failed_files)}

\* after a sequential run that returned without failures and without being
\* interrupted, the two trees are put back as they were and main is run with
\* the same options and --jobs MaxJobs
OtherMode ==
    /\ main.pc = "done"
    /\ hist.run = 1
    /\ ~Par(main) /\ main.jobs_opt = 0
    /\ ~main.interrupted /\ CleanRun
    /\ main' = InitMain(main.force, main.dry_run, TRUE, MaxJobs)
    /\ fs' = hist.fs0
    /\ extraDest' = TRUE
    /\ pool' = NoPool
    /\ memo' = [u \in Units |-> FreshMemo]
    /\ hist' = [InitHist(hist.fs0) EXCEPT
                  !.run = 2,
                  !.first = [dest |-> [u \in Units |-> fs[DestPath(u)]],
                             extra |-> extraDest, failed |-> FailedSet(main)]]
    /\ UNCHANGED <<finder, srcExt, workdir, clock, impl, tagCapable, eopts, use_checksum,
                   nuResult>>

NextPair == Next \/ OtherMode

SpecPair == InitPair /\ [][NextPair]_vars

\* ------------------------------------------- DestinationFinder on its own
RECURSIVE Flatten(_)
Flatten(ss) == IF ss = <<>> THEN <<>> ELSE Head(ss) \o Flatten(Tail(ss))

\* the file names: every string made of at most MaxNameLen pieces, "." and ".."
\* excepted
Pieces == {<<"a">>, <<".">>, Str["flac"], Str["FLAC"]}
FileNames ==
    {Flatten(ps) : ps \in UNION {[1..k -> Pieces] : k \in 1..MaxNameLen}}
    \ {<<".">>, <<".", ".">>}

\* the directory names, and the normalised paths given to find_dest: below
\* src_dir, beside it and above it
DirNames == {<<"m">>, <<"s">>, <<".", ".", "a">>, <<"a", ".">> \o Str["flac"]}
SrcArgs ==
    {SrcArg(isabs, ds \o <<f>>) :
        isabs \in BOOLEAN,
        ds \in UNION {[1..k -> DirNames] : k \in 0..MaxDirs},
        f \in FileNames}

\* the files of the two trees, relative to src_dir and to dest_dir
Named(base, e) == base \o <<".">> \o Str[e]
SrcTreeFiles ==
    {<<Named(<<"a">>, "flac")>>, <<Named(<<"b">>, "mp3")>>, <<Named(<<"c">>, "FLAC")>>,
     <<<<".", "h">>, Named(<<"a">>, "flac")>>, <<<<".", ".", "a">>>>,
     <<Named(<<"a">>, "ogg")>>}
DestTreeFiles ==
    {<<Named(<<"a">>, "ogg")>>, <<Named(<<"b">>, "mp3")>>, <<Named(<<"b">>, "ogg")>>,
     <<Named(<<"c">>, "FLAC")>>, <<<<".", "h">>, Named(<<"a">>, "ogg")>>,
     <<<<"d">>, Named(<<"a">>, "ogg")>>}

InitFinder ==
    /\ srcExt = [u \in Units |-> "mp3"]
    /\ eopts = NoEopts
    /\ use_checksum = TRUE
    /\ impl = "script"
    /\ tagCapable = TRUE
    /\ clock = 1
    /\ fs = [p \in Paths |-> NoFile]
    /\ workdir = FALSE
    /\ extraDest = FALSE
    /\ memo = [u \in Units |-> FreshMemo]
    /\ nuResult = [u \in Units |-> "none"]
    /\ main = [InitMain(FALSE, FALSE, FALSE, 0) EXCEPT !.pc = "finder"]
    /\ pool = NoPool
    /\ hist = InitHist(fs)
    /\ \/ \E a \in SrcArgs : finder = [NoFinder EXCEPT !.mode = "find", !.src = a]
       \/ \E st \in SUBSET SrcTreeFiles, dt \in SUBSET DestTreeFiles, h \in BOOLEAN :
             finder = [NoFinder EXCEPT !.mode = "walk", !.srcTree = st, !.destTree = dt,
                                       !.hidden = h]

\* df.find_dest(src), and the Transfercode made of the pair when a path is returned
FindDest ==
    /\ finder.mode = "find"
    /\ finder.res = NoResult
    /\ \E r \in {find_dest(finder.src)} :
          finder' = [finder EXCEPT
                       !.res = r,
                       !.needs_transcode =
                           IF r.raised = "none"
                           THEN needs_transcode(abs_str(finder.src.path), r.val)
                           ELSE FALSE]
    /\ UNCHANGED <<fs, srcExt, workdir, clock, impl, tagCapable, eopts, use_checksum,
                   memo, nuResult, extraDest, main, pool, hist>>

\* df.walk_extra_dest_files(), once more on the same trees
WalkExtra ==
    /\ finder.mode = "walk"
    /\ Len(finder.extras) < MaxCalls
    /\ finder' = [finder EXCEPT !.extras =
                     Append(@, walk_extra_dest_files(finder.srcTree, finder.destTree,
                                                     finder.hidden))]
    /\ UNCHANGED <<fs, srcExt, workdir, clock, impl, tagCapable, eopts, use_checksum,
                   memo, nuResult, extraDest, main, pool, hist>>

\* list(df.transfercodes(...)): the source-destination pairs main builds its
\* units from
WalkPairs ==
    /\ finder.mode = "walk"
    /\ ~finder.paired
    /\ finder' = [finder EXCEPT !.paired = TRUE,
                                !.pairs = walk_source_target_pairs(finder.srcTree,
                                                                   finder.hidden)]
    /\ UNCHANGED <<fs, srcExt, workdir, clock, impl, tagCapable, eopts, use_checksum,
                   memo, nuResult, extraDest, main, pool, hist>>

NextFinder == FindDest \/ WalkExtra \/ WalkPairs

SpecFinder == InitFinder /\ [][NextFinder]_vars

\* ------------------------------------------------------------- properties
Ended == main.pc \in {"done", "raised"}

C2_TempDeletedOnce ==
    \A u \in Units : hist.tempXfer[u] # "none" => hist.removed[u] = 1

\* C3: when main has ended after an interrupt that arrived while a unit's
\* transfer into its destination was in progress, the partially written
\* destination file has been deleted
C3_PartialDestRemoved ==
    (Ended /\ hist.intr.xfer # 0) => fs[DestPath(hist.intr.xfer)].data # <<"partial">>

\* C4: every run of main that created the working directory and was not
\* interrupted before entering the try block ends with the directory and
\* everything in it removed
C4_WorkDirRemoved ==
    (Ended /\ hist.workCreated /\ hist.intr.at # "enter")
        => (~workdir /\ \A u \in Units : ~fs[TempPath(u)].exists)

\* C5: whenever the staging or the final transfer of a unit raised an Exception,
\* the path appended to failed_files is the source path of that unit
C5_FailedFileIsCulprit ==
    \A i \in 1..Len(hist.failLog) :
        hist.failLog[i].phase \in {"stage", "transfer"}
            => hist.failLog[i].recorded = hist.failLog[i].culprit

\* C6: no Exception raised while a unit is handled (needs_update, staging,
\* transfer) leaves the per-unit loop
C6_NoExceptionEscapes == hist.escaped = FALSE

\* the threads whose write to a final destination path is in progress
DestWriters ==
    (IF main.pc = "write" /\ main.job.dest[1] = "dest" THEN {0} ELSE {})
    \cup {w \in Workers : pool.workers[w].st = "engine"
                          /\ stage_inner(UnitOf(pool.workers[w].u)).dest[1] = "dest"}

\* C7: at most one write to a final destination is in progress at any time;
\* destinations, failed_files and last_file are written by the main thread only,
\* and worker threads write only temp files of the working directory
C7_SingleTransferPath ==
    /\ Cardinality(DestWriters) <= 1
    /\ \A w \in hist.writes : w[1] = "worker" => w[2] = "temp"
    /\ \A w \in hist.writes : w[2] \in {"dest", "failed_files", "last_file"} => w[1] = "main"

\* the main thread writes a destination while a worker's engine is running
C7_Witness ==
    /\ main.pc = "write"
    /\ main.job.dest[1] = "dest"
    /\ \E w \in Workers : pool.workers[w].st = "engine"

\* C8: needs_update returns true whenever the destination does not exist;
\* otherwise, for a unit that needs transcoding with checksums enabled whose
\* destination carries a saved checksum, it returns true exactly when that
\* checksum differs from the source checksum, whatever the modification times;
\* otherwise, for a copy-only unit or with checksums disabled, it returns true
\* exactly when the source's modification time is strictly greater than the
\* destination's, and no checksum is read or computed
C8_DecisionOrder ==
    \A u \in Units :
        nuResult[u] # "none" =>
            LET nt == UnitOf(u).needs_transcode
                s == fs[SrcPath(u)]
                d == fs[DestPath(u)]
            IN /\ ~d.exists => nuResult[u] = "True"
               /\ (d.exists /\ nt /\ use_checksum /\ d.tag # PyNone /\ s.readable)
                     => nuResult[u] = IF d.tag # Hash(s.data, eopts) THEN "True" ELSE "False"
               /\ (d.exists /\ ~(nt /\ use_checksum))
                     => /\ nuResult[u] = IF s.mtime > d.mtime THEN "True" ELSE "False"
                        /\ memo[u] = FreshMemo

\* a destination newer than its source whose saved checksum differs was judged stale
C8_Witness ==
    \E u \in Units :
        /\ nuResult[u] = "True"
        /\ UnitOf(u).needs_transcode /\ use_checksum
        /\ fs[DestPath(u)].exists /\ fs[DestPath(u)].tag # PyNone
        /\ fs[DestPath(u)].mtime > fs[SrcPath(u)].mtime

\* C9: in both implementations, for a unit that needs transcoding with checksums
\* enabled whose existing destination has no checksum tag, needs_update returns
\* source_mtime > destination_mtime
C9_TaglessFallsBackToMtime ==
    \A u \in Units :
        (/\ nuResult[u] \in {"True", "False"}
         /\ UnitOf(u).needs_transcode /\ use_checksum
         /\ fs[DestPath(u)].exists /\ fs[DestPath(u)].tag = PyNone)
            => nuResult[u] = IF fs[SrcPath(u)].mtime > fs[DestPath(u)].mtime
                             THEN "True" ELSE "False"

\* C10: the second of two runs in succession on an unchanged source tree, with
\* the same options and no force, finds no unit in need of an update: it stages
\* nothing and writes no destination
C10_SecondRunIdle ==
    hist.run = 2 =>
        /\ main.pc \notin {"seq_stage", "seq_engine", "xfer", "write"}
        /\ \A w \in hist.writes : w[2] \notin {"dest", "temp"}

\* C11: for a unit that needs transcoding with checksums enabled whose destination
\* carries a checksum tag, a fresh unit reports no update needed when the tag
\* matches the checksum of the current source bytes and encoder options; after
\* the source bytes are changed, or after only the encoder options are changed
\* to a value that is not the same once None is read as the empty string, a
\* fresh unit reports that an update is needed, whatever the modification times
C11_ChecksumDetectsChange ==
    \A u \in Units :
        (/\ nuResult[u] \in {"True", "False"}
         /\ UnitOf(u).needs_transcode /\ use_checksum
         /\ fs[DestPath(u)].exists /\ fs[DestPath(u)].tag # PyNone)
            => /\ fs[DestPath(u)].tag = Hash(fs[SrcPath(u)].data, eopts)
                     => nuResult[u] = "False"
               /\ (/\ hist.nu0[u] = "False"
                   /\ \/ hist.changed[u] = "bytes"
                      \/ /\ hist.changed[u] = "eopts"
                         /\ eopts_bytes(hist.eopts0) # eopts_bytes(eopts))
                     => nuResult[u] = "True"

\* a destination newer than its source, current before the encoder options were
\* changed, is judged stale afterwards
C11_Witness ==
    \E u \in Units :
        /\ hist.changed[u] = "eopts"
        /\ hist.nu0[u] = "False"
        /\ nuResult[u] = "True"
        /\ UnitOf(u).needs_transcode /\ use_checksum
        /\ fs[DestPath(u)].exists /\ fs[DestPath(u)].tag # PyNone
        /\ fs[DestPath(u)].mtime > fs[SrcPath(u)].mtime

\* C11 as stated: after any change of only the encoder options, a fresh unit on a
\* destination that was current reports that an update is needed
C11_AnyOptionsChange ==
    \A u \in Units :
        (/\ nuResult[u] \in {"True", "False"}
         /\ UnitOf(u).needs_transcode /\ use_checksum
         /\ fs[DestPath(u)].exists /\ fs[DestPath(u)].tag # PyNone
         /\ hist.nu0[u] = "False"
         /\ hist.changed[u] = "eopts")
            => nuResult[u] = "True"

\* the destination of unit u was written during the run
Transferred(u) ==
    /\ fs[DestPath(u)].exists
    /\ fs[DestPath(u)] # hist.fs0[DestPath(u)]
    /\ fs[DestPath(u)] # PartialFile

\* C12: a run with force that is not a dry run, in which no unit failed and which
\* was not interrupted, has transferred every enumerated unit when it returns,
\* the units that were already up to date included, in sequential mode and with
\* a worker pool
C12_ForceTransfersAll ==
    (/\ main.pc = "done"
     /\ main.force /\ ~main.dry_run
     /\ main.failed_files = <<>> /\ ~main.interrupted)
        => \A u \in Units : Transferred(u)

\* C13: a dry run creates, modifies and deletes no file or directory: the file
\* system is what it was before the run, work_dir included, and no orphan
\* destination file is deleted
C13_DryRunTouchesNothing ==
    main.dry_run => /\ fs = hist.fs0
                    /\ ~workdir /\ ~hist.workCreated
                    /\ extraDest

\* C14: a dry run reaches the final summary and returns from main without an
\* exception
C14_DryRunEndsNormally ==
    (main.dry_run /\ Ended) => (main.pc = "done" /\ main.exc = "none")

\* find_dest was called on an absolute path that lies below src_dir
UnderRoot(path) == Len(path) > Len(src_dir) /\ SubSeq(path, 1, Len(src_dir)) = src_dir
FoundFor(isabs) ==
    finder.mode = "find" /\ finder.res # NoResult /\ finder.src.isabs = isabs

\* the path of the argument relative to src_dir, and its file name
RelOf(path) == sep_join(SubSeq(path, Len(src_dir) + 1, Len(path)))
NameOf(path) == path[Len(path)]

\* the file name ends with a dot and e, and something other than dots precedes
\* that dot
HasExt(name, e) ==
    /\ Len(name) > Len(e) + 1
    /\ SubSeq(name, Len(name) - Len(e), Len(name)) = <<".">> \o e
    /\ \E k \in 1..(Len(name) - Len(e) - 1) : name[k] # "."

\* the relative path with e replaced by the target extension, the dot kept
Retargeted(rel, e) == SubSeq(rel, 1, Len(rel) - Len(e)) \o dest_ext

\* C15: for every absolute path of a file below the source root, find_dest
\* returns the destination root joined with the same relative path, in which
\* the extension is replaced by the target extension when it is in the
\* transcode set (everything up to and including the last dot is kept), and
\* which is unchanged for every other extension, the empty one included
C15_FindDestMapsExtension ==
    (FoundFor(TRUE) /\ UnderRoot(finder.src.path)) =>
        LET rel == RelOf(finder.src.path)
            name == NameOf(finder.src.path)
        IN /\ finder.res.raised = "none"
           /\ finder.res.val =
                 path_join(dest_dir,
                           IF \E e \in src_exts : HasExt(name, e)
                           THEN Retargeted(rel, CHOOSE e \in src_exts : HasExt(name, e))
                           ELSE rel)

\* C16: find_dest on an absolute path that is not below the source root raises
\* ValueError and returns no path
C16_OutsideRootRaises ==
    (FoundFor(TRUE) /\ ~UnderRoot(finder.src.path)) =>
        (finder.res.raised = "ValueError" /\ finder.res.val = <<>>)

\* find_dest has raised ValueError for a file in a directory beside src_dir
C16_Witness ==
    /\ FoundFor(TRUE)
    /\ Len(finder.src.path) = Len(src_dir) + 1
    /\ finder.src.path[1] = src_dir[1] /\ finder.src.path[2] # src_dir[2]
    /\ finder.res.raised = "ValueError"

\* str.lower on the letters of the extensions
lower(x) ==
    [i \in 1..Len(x) |->
        IF \E j \in 1..Len(Str["FLAC"]) : Str["FLAC"][j] = x[i]
        THEN Str["flac"][CHOOSE j \in 1..Len(Str["FLAC"]) : Str["FLAC"][j] = x[i]]
        ELSE x[i]]

\* C17: a source file below the source root whose extension differs from an
\* extension of the transcode set only in letter case is mapped to the target
\* extension, and the unit made of the pair has needs_transcode true
C17_CaseNormalized ==
    (FoundFor(TRUE) /\ UnderRoot(finder.src.path)) =>
        \A E \in {Str["flac"], Str["FLAC"]} :
            (lower(E) \in src_exts /\ HasExt(NameOf(finder.src.path), E)) =>
                /\ finder.res.raised = "none"
                /\ finder.res.val =
                      path_join(dest_dir, Retargeted(RelOf(finder.src.path), E))
                /\ finder.needs_transcode

\* C18: find_dest on a path that is not absolute returns what it returns for the
\* same path below the source root given as an absolute path, and raises nothing
C18_RelativeAccepted ==
    FoundFor(FALSE) =>
        /\ finder.res.raised = "none"
        /\ finder.res = find_dest(SrcArg(TRUE, src_dir \o finder.src.path))

\* C19: every call of walk_extra_dest_files returns, in strictly ascending
\* order, exactly the files found in the destination tree that are not the
\* target of a file found in the source tree, and every call on the same trees
\* returns the same list
C19_ExtraDestFiles ==
    finder.mode = "walk" =>
        \A i \in 1..Len(finder.extras) :
            LET r == finder.extras[i]
                found(dir, tree) == {dir \o f : f \in {g \in tree : finder.hidden \/ visible(g)}}
            IN /\ r.raised = "none"
               /\ \A j \in 1..Len(r.val) : \A k \in (j + 1)..Len(r.val) :
                      str_lt(r.val[j], r.val[k])
               /\ {r.val[j] : j \in 1..Len(r.val)} =
                     {abs_str(d) : d \in {x \in found(dest_dir, finder.destTree) :
                         \A sf \in found(src_dir, finder.srcTree) :
                             find_dest(SrcArg(TRUE, sf)).val # abs_str(x)}}
               /\ r = finder.extras[1]

\* C20: once an interrupt has arrived during the transfer phase, in sequential or
\* in parallel mode, main is in its final clean-up or has ended, so it stages
\* and transfers nothing more; no task is left for the pool to start; main's
\* next step never waits for a worker whose transcode is in flight; and the
\* orphan destination files are still there, although delete was given
C20_InterruptStopsScheduler ==
    hist.intr.at \in LoopPcs =>
        /\ main.pc \in {"fin_unlink", "fin_rmdir", "summary", "done", "raised"}
        /\ pool.tasks = <<>> /\ pool.state \in {"none", "terminated"}
        /\ ~Ended => ENABLED (FinUnlink \/ FinRmdir \/ Summary)
        /\ extraDest

\* main has ended after an interrupt of the parallel loop while a worker's
\* transcode was still running, and the orphan files are still there
C20_Witness ==
    /\ hist.intr.at \in {"par_next", "xfer", "write"}
    /\ Ended
    /\ \E w \in Workers : pool.workers[w].st = "engine"
    /\ extraDest

\* C21: whenever copy has returned normally on a call that is not a dry run,
\* whatever the fast-copy tool did, the destination holds the source's bytes
C21_CopyFallsBack ==
    \A u \in Units : hist.copyRet[u] # "differs"

\* C22: when the target format is one of the transcode formats, main fails
\* before enumeration: it ends by an exception, no working directory was
\* created, no unit was examined and no file was written or deleted
C22_TargetInFormatsFailsEarly ==
    main.target_in_formats =>
        /\ main.pc \in {"plan", "raised"}
        /\ main.pc = "raised" => main.exc = "exception"
        /\ ~hist.workCreated /\ ~workdir
        /\ hist.writes = {}
        /\ fs = hist.fs0
        /\ memo = [u \in Units |-> FreshMemo]
        /\ pool = NoPool
        /\ extraDest

\* a run whose target format is a transcode format has failed
C22_Witness == main.target_in_formats /\ main.pc = "raised"

\* the units recorded in failed_files
FailedUnits == {main.failed_files[i] : i \in 1..Len(main.failed_files)}

\* C23: when a parallel run in which the staging of some unit raised an
\* Exception in a worker has ended without being interrupted, every unit
\* whose staging raised is recorded in failed_files and the result of every
\* other unit was delivered and transferred
C23_StagingFailureIsolated ==
    (/\ Ended /\ ~main.interrupted
     /\ hist.stageExc # {})
        => \A u \in Units :
              IF u \in hist.stageExc THEN u \in FailedUnits ELSE u \in hist.xfers

\* the condition of the parallel branch, from the options and the files the run
\* started with: jobs > 0, not dry_run, and a unit that needs transcoding is
\* forced or needs an update
ParallelCond ==
    /\ main.jobs_opt > 0
    /\ ~main.dry_run
    /\ \E u \in Units :
          /\ UnitOf(u).needs_transcode
          /\ \/ main.force
             \/ \E nu \in {needs_update(UnitOf(u), FreshMemo, hist.fs0)} :
                   ~nu.raised /\ nu.val

\* C24: main is in the parallel branch, or has a pool, only when jobs > 0,
\* dry_run is off and at least one unit that needs transcoding is forced or
\* needs an update; in the branch the pool exists; in every other run the units
\* go through the sequential loop and no pool is ever created
C24_ParallelOnlyWhenNeeded ==
    /\ (main.pc \in {"par_setup", "par_next"} \/ pool # NoPool) =>
          ParallelCond /\ ~main.dry_run
    /\ main.pc = "par_next" => pool.state # "none"
    /\ main.pc \in {"seq_next", "seq_stage", "seq_engine"} =>
          ~ParallelCond /\ pool = NoPool
    /\ main.pc \in {"xfer", "write"} => (Par(main) <=> ParallelCond)

\* the parallel loop is waiting for results of a live pool
C24_Witness == main.pc = "par_next" /\ pool.state = "alive" /\ pool.nread > 0

\* C25: once planning has ended without raising, needs_update has been
\* evaluated for every enumerated unit
C25_PlanEvaluatesEveryUnit ==
    (main.pc \notin {"plan", "raised"} \/ (main.pc = "raised" /\ hist.workCreated))
        => hist.planSeen = Units

\* C26: right after transcode or save_checksum has returned normally, the
\* unit's memoized saved checksum is unknown again, and after such a transcode
\* under the checksum policy needs_update() returns false
C26_RewriteResetsSavedChecksum ==
    (hist.last.op \in {"transcode", "save_checksum"} /\ ~hist.last.raised) =>
        /\ memo[1].saved = PyNone
        /\ (hist.last.op = "transcode" /\ use_checksum) =>
              \E nu \in {needs_update(UnitOf(1), memo[1], fs)} :
                 ~nu.raised /\ ~nu.val

\* unit u needs transcoding under the checksum policy, and when the run started
\* its destination existed, was not older than the source and had no checksum tag
UntaggedUpToDate(u) ==
    /\ UnitOf(u).needs_transcode /\ use_checksum
    /\ hist.fs0[DestPath(u)].exists
    /\ hist.fs0[DestPath(u)].tag = PyNone
    /\ hist.fs0[DestPath(u)].mtime >= hist.fs0[SrcPath(u)].mtime

\* C27: when a run that is neither dry nor forced has returned without failures
\* and without being interrupted, every such destination carries the source's
\* checksum as its tag and still holds the bytes it held before the run
C27_ChecksumTagRepaired ==
    (/\ main.pc = "done"
     /\ ~main.dry_run /\ ~main.force
     /\ main.failed_files = <<>> /\ ~main.interrupted)
        => \A u \in Units :
              UntaggedUpToDate(u) =>
                 /\ fs[DestPath(u)].data = hist.fs0[DestPath(u)].data
                 /\ fs[DestPath(u)].tag = Hash(fs[SrcPath(u)].data, eopts)

\* C28: a call of transcode_to_tempdir made under dry_run, on a unit that needs
\* no transcoding, or with neither force nor needs_update() returned the unit
\* itself, created no temp file and started no engine run; every other call
\* whose tempdir exists created exactly one temp file, did not return the unit
\* itself, and started one engine run unless it raised
C28_StagingFrame ==
    \A u \in Units :
       \E c \in {hist.stage[u]} :
          c.called =>
             /\ c.noop = "yes" => c.temps = 0 /\ c.engines = 0 /\ c.ret = "self"
             /\ (c.noop = "no" /\ c.dir) =>
                   /\ c.temps = 1
                   /\ c.ret \in {"running", "temp", "raised"}
                   /\ c.ret # "raised" => c.engines = 1

\* one staging that transcoded has returned, and one was a no-op
C28_Witness ==
    \E u, v \in Units :
       /\ hist.stage[u].called /\ hist.stage[u].ret = "temp"
       /\ hist.stage[v].called /\ hist.stage[v].noop = "yes"
       /\ UnitOf(v).needs_transcode /\ ~main.dry_run

\* C29: the unit main transfers after a staging that transcoded is a
\* TransfercodeTemp from the temp file to the original destination with the
\* checksum policy off; its needs_update() is true, its transfer() chooses
\* copy unless check() raises, and no engine run ever writes to a destination
C29_TempUnitIsCopied ==
    /\ main.pc = "xfer" =>
          \E t \in {main.tfc}, u \in {UnitId(main.tfc)} :
             /\ hist.stage[u].ret = "temp" => t.cls = "TransfercodeTemp"
             /\ t.cls = "TransfercodeTemp" =>
                   /\ t.src = TempPath(u) /\ t.dest = DestPath(u)
                   /\ ~t.use_checksum
                   /\ needs_update(t, MemoOf(t), fs).val
                   /\ \E tp \in {transfer_plan(t, MemoOf(t), fs, workdir, main.force,
                                                main.dry_run)} :
                         tp.raised \/ tp.val = "copy"
    /\ (main.pc = "write" /\ main.job.cls = "TransfercodeTemp") => main.op = "copy"
    /\ <<"main", "dest", "transcode">> \notin hist.writes

\* the copy of a staged temp file to its destination is in progress
C29_Witness ==
    /\ main.pc = "write" /\ main.job.cls = "TransfercodeTemp" /\ main.op = "copy"
    /\ fs[main.job.src].exists /\ fs[main.job.src].data # <<>>

\* C30: a transcode whose engine run completed without writing its output has
\* raised, whatever the destination path held before
C30_NoOutputRaises ==
    (hist.last.op = "transcode" /\ hist.last.out = "no_output") => hist.last.raised

\* C31: a call of transfer or transcode_to_tempdir that changed a file had
\* invoked check() and check() had passed; a dry-run call never invokes check()
C31_CheckBeforeFilesystem ==
    (hist.last.op \in {"transfer", "stage"}) =>
        /\ hist.last.dry_run => hist.last.checked = "no"
        /\ (hist.last.touched # {}) => hist.last.checked = "passed"

\* the encoder options in force: the ones given, or the default-table entry of
\* the target format when none are given and the table has one
EffectiveEopts ==
    IF eopts = NoEopts /\ target_format \in DOMAIN default_eopts
    THEN default_eopts[target_format] ELSE eopts

\* C32: every file an engine run of this run has written was encoded with the
\* options in force, and every source checksum computed or saved in this run
\* is taken over those options
C32_DefaultEoptsUsed ==
    \A u \in Units :
        /\ \A p \in {DestPath(u), TempPath(u)} :
              (fs[p] # hist.fs0[p] /\ Len(fs[p].data) = 3 /\ fs[p].data[1] = "enc")
                 => /\ fs[p].data[3] = EffectiveEopts
                    /\ fs[p].tag # PyNone
                          => fs[p].tag = Hash(fs[p].data[2], EffectiveEopts)
        /\ memo[u].src # PyNone
              => memo[u].src = Hash(fs[SrcPath(u)].data, EffectiveEopts)

\* the per-unit loop has run to its end
LoopDone == IF Par(main) THEN pool.nread = NumUnits ELSE main.idx > NumUnits

\* C33: when main has ended, finished is set only if the per-unit loop ran to
\* its end and no interrupt or escaping exception occurred; canceled is set
\* exactly when an interrupt was raised; they are never both set; and whenever
\* one of them is set the summary of the failed files was produced
C33_FinishedCanceledFlags ==
    Ended =>
        /\ main.finished => (LoopDone /\ ~main.interrupted /\ ~hist.escaped)
        /\ main.canceled <=> main.interrupted
        /\ ~(main.finished /\ main.canceled)
        /\ (main.finished \/ main.canceled) => hist.summary = "produced"

\* C34: in a run that was not interrupted, transfer() is invoked at most once
\* on every unit, and never on a unit whose staging raised an Exception
C34_TransferAtMostOnce ==
    ~main.interrupted =>
        \A u \in Units :
            /\ hist.xferCount[u] <= 1
            /\ hist.stage[u].ret = "raised" => hist.xferCount[u] = 0

\* an uninterrupted parallel run has ended; the staging of one unit raised and
\* another unit was transferred
C34_Witness ==
    /\ Ended /\ ~main.interrupted /\ Par(main)
    /\ \E u, v \in Units :
          /\ hist.stage[u].ret = "raised" /\ hist.xferCount[u] = 0
          /\ hist.xferCount[v] = 1

C35_FindDestTotalOnWalk ==
    finder.paired =>
        \A p \in finder.pairs :
            /\ p.dest.raised = "none"
            /\ startswith(p.dest.val, abs_str(dest_dir) \o <<"/">>)

\* C36: two different source files are never given the same destination path
C36_DestinationsDistinct ==
    finder.paired =>
        \A p, q \in finder.pairs :
            (p.src # q.src /\ p.dest.raised = "none" /\ q.dest.raised = "none")
                => p.dest.val # q.dest.val

\* C38: when the parallel run on the same trees and options has ended, neither
\* run having been interrupted and no engine run or copy having failed in
\* either, it has left the destination tree the sequential run left (files,
\* bytes, checksum tags) and the same failed source paths
C38_ModesAgree ==
    (Ended /\ hist.run = 2 /\ Par(main) /\ ~main.interrupted /\ CleanRun) =>
        /\ \A u \in Units :
              /\ fs[DestPath(u)].exists = hist.first.dest[u].exists
              /\ fs[DestPath(u)].data = hist.first.dest[u].data
              /\ fs[DestPath(u)].tag = hist.first.dest[u].tag
        /\ extraDest = hist.first.extra
        /\ FailedSet(main) = hist.first.failed

\* main has run the whole of an uninterrupted run: every unit was staged and
\* transferred at most once, the parallel loop has read one result per unit,
\* the orphan step and the cleanup were passed and the summary was produced
RanToSummary ==
    /\ \A u \in Units : hist.stageCount[u] <= 1 /\ hist.xferCount[u] <= 1
    /\ Par(main) => pool.nread = NumUnits
    /\ hist.orphans
    /\ ~workdir /\ \A u \in Units : ~fs[TempPath(u)].exists
    /\ hist.summary = "produced"

\* C39: every run of main ends, and one that was not interrupted has then run
\* through the per-unit loop, the orphan step and the cleanup to its summary
C39_RunTerminates ==
    /\ <>Ended
    /\ []((Ended /\ ~main.interrupted) => RanToSummary)

====
